---- MODULE Spec2Model ----
(***************************************************************************)
(* Model of the source dependency graph analyzer                           *)
(* (agents/tools/analyze_dependencies.py): discovery, module index,        *)
(* import resolution, graph construction, metrics (Tarjan SCC) and the     *)
(* three output artifacts.                                                 *)
(*                                                                         *)
(* Python strings are TLA+ strings handled character by character (Len,    *)
(* SubSeq, \o), so path -> module-id conversion, dotted splitting and      *)
(* prefix stripping are computed as the code computes them.                *)
(***************************************************************************)
EXTENDS Naturals, Integers, Sequences, FiniteSets, TLC

(***************************************************************************)
(* Bounds of the model.                                                    *)
(***************************************************************************)
\* number of consecutive runs of the CLI on the same tree
MaxRuns == 2
\* highest relative-import level written in the package fixtures
MaxLevel == 3
\* highest number of import targets written in one file of the flat fixtures
MaxImports == 2

(***************************************************************************)
(* Python str primitives.                                                  *)
(***************************************************************************)
CharAt(s, i) == SubSeq(s, i, i)

\* str.endswith
EndsWith(s, suf) ==
  /\ Len(s) >= Len(suf)
  /\ SubSeq(s, Len(s) - Len(suf) + 1, Len(s)) = suf

\* str.startswith
StartsWith(s, pre) ==
  /\ Len(s) >= Len(pre)
  /\ SubSeq(s, 1, Len(pre)) = pre

\* s[:-n]
DropLast(s, n) == IF Len(s) <= n THEN "" ELSE SubSeq(s, 1, Len(s) - n)

RECURSIVE ReplaceFrom(_, _, _, _)
ReplaceFrom(s, old, new, i) ==
  IF i > Len(s) THEN ""
  ELSE (IF CharAt(s, i) = old THEN new ELSE CharAt(s, i))
         \o ReplaceFrom(s, old, new, i + 1)

\* str.replace for a one-character pattern
Replace(s, old, new) == ReplaceFrom(s, old, new, 1)

RECURSIVE SplitFrom(_, _, _, _)
SplitFrom(s, sep, start, i) ==
  IF i > Len(s) THEN << SubSeq(s, start, Len(s)) >>
  ELSE IF CharAt(s, i) = sep
       THEN << SubSeq(s, start, i - 1) >> \o SplitFrom(s, sep, i + 1, i + 1)
       ELSE SplitFrom(s, sep, start, i + 1)

\* str.split(sep) for a one-character separator: "".split(".") = [""]
Split(s, sep) == SplitFrom(s, sep, 1, 1)

RECURSIVE Join(_, _)
\* sep.join(parts)
Join(parts, sep) ==
  IF Len(parts) = 0 THEN ""
  ELSE IF Len(parts) = 1 THEN parts[1]
  ELSE parts[1] \o sep \o Join(Tail(parts), sep)

RECURSIVE LStrip(_, _)
LStrip(s, c) ==
  IF Len(s) > 0 /\ CharAt(s, 1) = c THEN LStrip(SubSeq(s, 2, Len(s)), c) ELSE s

RECURSIVE RStrip(_, _)
RStrip(s, c) ==
  IF Len(s) > 0 /\ CharAt(s, Len(s)) = c THEN RStrip(SubSeq(s, 1, Len(s) - 1), c) ELSE s

\* str.strip(c)
Strip(s, c) == RStrip(LStrip(s, c), c)

UpperChars == "ABCDEFGHIJKLMNOPQRSTUVWXYZ"

LowerChars == "abcdefghijklmnopqrstuvwxyz"

RECURSIVE LowerFrom(_, _)
LowerFrom(s, i) ==
  IF i > Len(s) THEN ""
  ELSE LET c == CharAt(s, i)
       IN (IF \E k \in 1..Len(UpperChars) : CharAt(UpperChars, k) = c
           THEN CharAt(LowerChars, CHOOSE k \in 1..Len(UpperChars) : CharAt(UpperChars, k) = c)
           ELSE c) \o LowerFrom(s, i + 1)

\* str.lower
Lower(s) == LowerFrom(s, 1)

\* the characters of the modelled strings in code-point order
Alphabet == "*-./:>ABCDEFGHIJKLMNOPQRSTUVWXYZ\\_abcdefghijklmnopqrstuvwxyz"

Ord(c) == CHOOSE i \in 1..Len(Alphabet) : CharAt(Alphabet, i) = c

RECURSIVE StrLessFrom(_, _, _)
StrLessFrom(a, b, i) ==
  IF i > Len(a) THEN i <= Len(b)
  ELSE IF i > Len(b) THEN FALSE
  ELSE IF CharAt(a, i) = CharAt(b, i) THEN StrLessFrom(a, b, i + 1)
  ELSE Ord(CharAt(a, i)) < Ord(CharAt(b, i))

\* a < b on Python str (lexicographic by code point)
StrLess(a, b) == StrLessFrom(a, b, 1)

RECURSIVE SetToSeq(_)
SetToSeq(S) ==
  IF S = {} THEN << >>
  ELSE LET m == CHOOSE u \in S : \A w \in S : u = w \/ StrLess(u, w)
       IN << m >> \o SetToSeq(S \ {m})

\* sorted(S) for a collection of distinct strings
Sorted(S) == SetToSeq(S)

Range(f) == { f[i] : i \in DOMAIN f }

\* the permutations of a finite set, as sequences
RECURSIVE Perms(_)
Perms(S) ==
  IF S = {} THEN { << >> }
  ELSE UNION { { << e >> \o p : p \in Perms(S \ {e}) } : e \in S }

Min(a, b) == IF a <= b THEN a ELSE b

\* Optional[str]
None == [isNone |-> TRUE]
Some(s) == [isNone |-> FALSE, val |-> s]

\* dict[k] = v
Put(d, k, v) == [u \in DOMAIN d \cup {k} |-> IF u = k THEN v ELSE d[u]]

\* the empty dict
EmptyDict == [u \in {} |-> 0]

\* dict.get(k, set())
GetSet(d, k) == IF k \in DOMAIN d THEN d[k] ELSE {}

(***************************************************************************)
(* Module identity and import resolution.                                  *)
(***************************************************************************)
\* module_name_from_path: (module, is_package) of a project-relative path
\* a naming that gives the root initializer the empty identifier of its directory
module_name_from_path_root_empty(rel) ==
  IF rel = "__init__.py" THEN << "", TRUE >>
  ELSE IF EndsWith(rel, "/__init__.py")
       THEN << Replace(DropLast(rel, 12), "/", "."), TRUE >>
       ELSE << Replace(DropLast(rel, 3), "/", "."), FALSE >>

module_name_from_path(rel) ==
  IF rel = "__init__.py" THEN << "__init__", TRUE >>
  ELSE IF EndsWith(rel, "/__init__.py")
       THEN << Replace(DropLast(rel, 12), "/", "."), TRUE >>
       ELSE << Replace(DropLast(rel, 3), "/", "."), FALSE >>

RECURSIVE build_module_index_from(_, _, _)
build_module_index_from(files, i, idx) ==
  IF i > Len(files) THEN idx
  ELSE LET mp == module_name_from_path(files[i])
       IN build_module_index_from(files, i + 1,
            [module_to_file    |-> Put(idx.module_to_file, mp[1], files[i]),
             file_to_module    |-> Put(idx.file_to_module, files[i], mp[1]),
             module_is_package |-> Put(idx.module_is_package, mp[1], mp[2])])

\* an index that knows only the file discovered first
build_module_index_first_file(files) ==
  build_module_index_from(SubSeq(files, 1, Min(1, Len(files))), 1,
    [module_to_file |-> EmptyDict, file_to_module |-> EmptyDict,
     module_is_package |-> EmptyDict])

\* build_module_index: the three dicts, filled in discovery order
build_module_index(files) ==
  build_module_index_from(files, 1,
    [module_to_file |-> EmptyDict, file_to_module |-> EmptyDict,
     module_is_package |-> EmptyDict])

\* pick_internal_module resolving a bare name to any module whose last segment it is
pick_internal_module_by_suffix(candidate, module_to_file) ==
  IF candidate \in DOMAIN module_to_file THEN Some(candidate)
  ELSE LET ending == { m \in DOMAIN module_to_file : EndsWith(m, "." \o candidate) }
       IN IF ending = {} THEN None ELSE Some(CHOOSE m \in ending : TRUE)

RECURSIVE pick_prefix(_, _, _)
pick_prefix(parts, i, module_to_file) ==
  IF i < 1 THEN None
  ELSE LET prefix == Join(SubSeq(parts, 1, i), ".")
       IN IF prefix \in DOMAIN module_to_file THEN Some(prefix)
          ELSE pick_prefix(parts, i - 1, module_to_file)

\* pick_internal_module: exact key, else longest proper dotted prefix, else None
\* a prefix search that never tries the candidate itself
pick_internal_module_proper_only(candidate, module_to_file) ==
  LET parts == Split(candidate, ".")
      hits  == { i \in 1..(Len(parts) - 1) :
                   Join(SubSeq(parts, 1, i), ".") \in DOMAIN module_to_file }
  IN IF hits = {} THEN None
     ELSE Some(Join(SubSeq(parts, 1, CHOOSE i \in hits : \A j \in hits : j <= i), "."))

\* a prefix search from the shortest prefix upwards
pick_internal_module_shortest_prefix(candidate, module_to_file) ==
  LET parts == Split(candidate, ".")
      hits  == { i \in 1..(Len(parts) - 1) :
                   Join(SubSeq(parts, 1, i), ".") \in DOMAIN module_to_file }
  IN IF candidate \in DOMAIN module_to_file THEN Some(candidate)
     ELSE IF hits = {} THEN None
     ELSE Some(Join(SubSeq(parts, 1, CHOOSE i \in hits : \A j \in hits : i <= j), "."))

pick_internal_module(candidate, module_to_file) ==
  IF candidate \in DOMAIN module_to_file THEN Some(candidate)
  ELSE LET parts == Split(candidate, ".")
       IN pick_prefix(parts, Len(parts) - 1, module_to_file)

\* resolve_relative_base dropping `level` segments instead of level - 1
resolve_relative_base_drop_level(current_module, is_package, level) ==
  LET cur      == Split(current_module, ".")
      package  == IF is_package THEN current_module
                  ELSE Join(SubSeq(cur, 1, Len(cur) - 1), ".")
      pkg_parts == IF package # "" THEN Split(package, ".") ELSE << >>
      drop     == level
  IN IF drop > Len(pkg_parts) THEN None
     ELSE Some(Join(SubSeq(pkg_parts, 1, Len(pkg_parts) - drop), "."))

\* resolve_relative_base failing as soon as the drop count reaches the segment count
resolve_relative_base_fail_at_equal(current_module, is_package, level) ==
  LET cur      == Split(current_module, ".")
      package  == IF is_package THEN current_module
                  ELSE Join(SubSeq(cur, 1, Len(cur) - 1), ".")
      pkg_parts == IF package # "" THEN Split(package, ".") ELSE << >>
      drop     == IF level - 1 > 0 THEN level - 1 ELSE 0
  IN IF drop >= Len(pkg_parts) THEN None
     ELSE Some(Join(SubSeq(pkg_parts, 1, Len(pkg_parts) - drop), "."))

\* resolve_relative_base
resolve_relative_base(current_module, is_package, level) ==
  LET cur      == Split(current_module, ".")
      package  == IF is_package THEN current_module
                  ELSE Join(SubSeq(cur, 1, Len(cur) - 1), ".")
      pkg_parts == IF package # "" THEN Split(package, ".") ELSE << >>
      drop     == IF level - 1 > 0 THEN level - 1 ELSE 0
  IN IF drop > Len(pkg_parts) THEN None
     ELSE Some(Join(SubSeq(pkg_parts, 1, Len(pkg_parts) - drop), "."))

\* normalize_config_path
normalize_config_path(raw) == Replace(raw, "\\", "/")

(***************************************************************************)
(* Node, Edge, Issue and DependencyGraph.                                  *)
(***************************************************************************)
Node(id, kind, label, module, file_path, is_package) ==
  [id |-> id, kind |-> kind, label |-> label, module |-> module,
   file_path |-> file_path, is_package |-> is_package]

\* an Edge whose source and target are exchanged
Edge_reversed(source, target, kind, raw, import_type, lineno, col_offset) ==
  [source |-> target, target |-> source, kind |-> kind, raw |-> raw,
   import_type |-> import_type, lineno |-> lineno, col_offset |-> col_offset]

Edge(source, target, kind, raw, import_type, lineno, col_offset) ==
  [source |-> source, target |-> target, kind |-> kind, raw |-> raw,
   import_type |-> import_type, lineno |-> lineno, col_offset |-> col_offset]

Issue(type, file, message, lineno) ==
  [type |-> type, file |-> file, message |-> message, lineno |-> lineno]

\* DependencyGraph()
EmptyGraph ==
  [nodes |-> EmptyDict, edges |-> << >>, forward |-> EmptyDict,
   reverse |-> EmptyDict, issues |-> << >>]

\* DependencyGraph.add_node
add_node(g, node) == [g EXCEPT !.nodes = Put(@, node.id, node)]

\* DependencyGraph.add_edge
\* an add_edge that records the edge in the forward adjacency only
add_edge_forward_only(g, edge) ==
  [g EXCEPT !.edges = Append(@, edge),
            !.forward = Put(@, edge.source, GetSet(@, edge.source) \cup {edge.target})]

\* an add_edge that files the reverse entry under the source instead of the target
add_edge_reverse_by_source(g, edge) ==
  [g EXCEPT !.edges = Append(@, edge),
            !.forward = Put(@, edge.source, GetSet(@, edge.source) \cup {edge.target}),
            !.reverse = Put(@, edge.source, GetSet(@, edge.source) \cup {edge.target})]

add_edge(g, edge) ==
  [g EXCEPT !.edges = Append(@, edge),
            !.forward = Put(@, edge.source, GetSet(@, edge.source) \cup {edge.target}),
            !.reverse = Put(@, edge.target, GetSet(@, edge.target) \cup {edge.source})]

\* DependencyGraph.add_issue
add_issue(g, issue) == [g EXCEPT !.issues = Append(@, issue)]

(***************************************************************************)
(* Source discovery.                                                       *)
(***************************************************************************)
\* the directory names os.walk never descends into
ExcludedDirs == {".git", "__pycache__", ".pytest_cache"}

\* is_ignored: the ignore matcher is the set of relative paths it matches
is_ignored(rel, matcher) == rel \in matcher

\* the filter of discover_python_files on one walked file
is_candidate(rel, matcher) ==
  LET comps == Split(rel, "/")
  IN /\ \A k \in 1..(Len(comps) - 1) : comps[k] \notin ExcludedDirs
     /\ EndsWith(rel, ".py")
     /\ ~is_ignored(rel, matcher)

RECURSIVE discover_from(_, _, _)
discover_from(walk, i, matcher) ==
  IF i > Len(walk) THEN << >>
  ELSE (IF is_candidate(walk[i].path, matcher) THEN << walk[i].path >> ELSE << >>)
         \o discover_from(walk, i + 1, matcher)

\* discover_python_files: the walked files that pass the filter, in walk order
discover_python_files(walk, matcher) == discover_from(walk, 1, matcher)

(***************************************************************************)
(* Config accesses.                                                        *)
(***************************************************************************)
valid_ext == << ".json", ".yaml", ".yml", ".sql", ".txt", ".csv", ".ini", ".toml", ".env" >>

ConfigFuncNames == {"open", "Path"}

ConfigAttrNames == {"read_csv", "read_json", "read_sql", "read_excel", "read_parquet", "load"}

RECURSIVE extract_from(_, _)
extract_from(calls, i) ==
  IF i > Len(calls) THEN << >>
  ELSE LET c == calls[i]
           hit == /\ ~c.arg.isNone
                  /\ \E k \in 1..Len(valid_ext) : EndsWith(Lower(c.arg.val), valid_ext[k])
                  /\ \/ c.func_kind = "Name" /\ c.func \in ConfigFuncNames
                     \/ c.func_kind = "Attribute" /\ c.func \in ConfigAttrNames
       IN (IF hit THEN << << normalize_config_path(c.arg.val), c.lineno, c.col_offset >> >>
                  ELSE << >>)
            \o extract_from(calls, i + 1)

\* extract_config_accesses: (normalized path, lineno, col) of every matching call
extract_config_accesses(tree) == extract_from(tree.calls, 1)

RECURSIVE config_edges_from(_, _, _, _, _)
config_edges_from(g, accesses, i, source_id, seen_configs) ==
  IF i > Len(accesses) THEN g
  ELSE LET raw_cfg == accesses[i][1]
           cfg_id  == "file:" \o raw_cfg
           g1 == IF cfg_id \notin DOMAIN g.nodes
                 THEN add_node(g, Node(cfg_id, "config_file", raw_cfg, None, Some(raw_cfg), FALSE))
                 ELSE g
           key == source_id \o "->" \o cfg_id
           g2 == IF key \notin seen_configs
                 THEN add_edge(g1, Edge(source_id, cfg_id, "config_access", raw_cfg,
                                        None, accesses[i][2], accesses[i][3]))
                 ELSE g1
       IN config_edges_from(g2, accesses, i + 1, source_id, seen_configs \cup {key})

\* the config-edge loop of build_dependency_graph for one parsed file
config_edges(g, tree, source_id) ==
  config_edges_from(g, extract_config_accesses(tree), 1, source_id, {})

(***************************************************************************)
(* Import edges.                                                           *)
(***************************************************************************)
RECURSIVE import_aliases(_, _, _, _, _, _)
import_aliases(g, node, i, source_id, rel_file, module_to_file) ==
  IF i > Len(node.names) THEN g
  ELSE LET imported == node.names[i]
           target_module == pick_internal_module(imported, module_to_file)
           target_id == IF ~target_module.isNone
                        THEN "module:" \o target_module.val
                        ELSE "external:" \o imported
           g1 == IF target_module.isNone /\ target_id \notin DOMAIN g.nodes
                 THEN add_node(g, Node(target_id, "external_package", imported,
                                       Some(imported), None, FALSE))
                 ELSE g
           g2 == add_edge(g1, Edge(source_id, target_id, "imports", imported,
                                   Some("import"), node.lineno, node.col_offset))
       IN import_aliases(g2, node, i + 1, source_id, rel_file, module_to_file)

\* an Import branch that reports every statement as an issue
process_import_reporting(g, node, source_id, rel_file, module_to_file) ==
  add_issue(import_aliases(g, node, 1, source_id, rel_file, module_to_file),
            Issue("external_import", rel_file, node.names, Some(node.lineno)))

\* the ast.Import branch of build_dependency_graph
process_import(g, node, source_id, rel_file, module_to_file) ==
  import_aliases(g, node, 1, source_id, rel_file, module_to_file)

RECURSIVE alias_targets_from(_, _, _)
alias_targets_from(names, i, import_base) ==
  IF i > Len(names) THEN << >>
  ELSE (IF import_base = ""
        THEN (IF names[i] # "*" THEN << names[i] >> ELSE << >>)
        ELSE (IF names[i] = "*" THEN << import_base >>
              ELSE << import_base \o "." \o names[i] >>))
         \o alias_targets_from(names, i + 1, import_base)

\* the alias_targets list of one ImportFrom node
alias_targets(names, import_base) ==
  IF Len(names) > 0 THEN alias_targets_from(names, 1, import_base)
  ELSE << import_base >>

RECURSIVE from_candidates(_, _, _, _, _, _, _, _, _)
from_candidates(g, targets, i, node, import_base, import_type, source_id, rel_file, module_to_file) ==
  IF i > Len(targets) THEN g
  ELSE LET candidate == Strip(targets[i], ".")
           first == pick_internal_module(candidate, module_to_file)
           target_module == IF first.isNone /\ import_base # ""
                            THEN pick_internal_module(import_base, module_to_file)
                            ELSE first
           target_id == IF ~target_module.isNone
                        THEN "module:" \o target_module.val
                        ELSE "external:" \o candidate
           g1 == IF target_module.isNone /\ target_id \notin DOMAIN g.nodes
                 THEN add_node(g, Node(target_id, "external_package", candidate,
                                       Some(candidate), None, FALSE))
                 ELSE g
           g2 == IF target_module.isNone /\ node.level > 0
                 THEN add_issue(g1, Issue("unresolved_relative_target", rel_file,
                                          << "Unresolved relative target", candidate >>,
                                          Some(node.lineno)))
                 ELSE g1
           g3 == add_edge(g2, Edge(source_id, target_id, "imports", candidate,
                                   Some(import_type), node.lineno, node.col_offset))
       IN from_candidates(IF candidate = "" THEN g ELSE g3, targets, i + 1, node,
                          import_base, import_type, source_id, rel_file, module_to_file)

\* node.module or ""
base_module_of(node) == IF node.module.isNone THEN "" ELSE node.module.val

\* ".".join([p for p in [resolved_base, base_module] if p]).strip(".")
join_base(resolved_base, base_module) ==
  Strip(Join(SelectSeq(<< resolved_base, base_module >>, LAMBDA p : p # ""), "."), ".")

\* the ast.ImportFrom branch of build_dependency_graph
process_import_from(g, node, module_name, is_package, source_id, rel_file, module_to_file) ==
  LET base_module == base_module_of(node)
      resolved_base == IF node.level > 0
                       THEN resolve_relative_base(module_name, is_package, node.level)
                       ELSE None
      import_base == IF node.level > 0
                     THEN join_base(resolved_base.val, base_module)
                     ELSE base_module
      import_type == IF node.level > 0 THEN "relative_import" ELSE "from_import"
  IN IF node.level > 0 /\ resolved_base.isNone
     THEN add_issue(g, Issue("relative_import_error", rel_file,
                             << "Unable to resolve relative import", node.level, base_module >>,
                             Some(node.lineno)))
     ELSE from_candidates(g, alias_targets(node.names, import_base), 1, node,
                          import_base, import_type, source_id, rel_file, module_to_file)

RECURSIVE module_nodes_from(_, _, _)
module_nodes_from(g, mods, i) ==
  IF i > Len(mods) THEN g
  ELSE module_nodes_from(add_node(g, mods[i]), mods, i + 1)

\* the first loop of build_dependency_graph: one python_module node per index key
module_nodes(idx) ==
  LET keys == SetToSeq(DOMAIN idx.module_to_file)
  IN module_nodes_from(EmptyGraph,
       [k \in 1..Len(keys) |->
          Node("module:" \o keys[k], "python_module", keys[k], Some(keys[k]),
               Some(idx.module_to_file[keys[k]]), idx.module_is_package[keys[k]])], 1)

(***************************************************************************)
(* Metrics.                                                                *)
(***************************************************************************)
\* the sorted ids of all the nodes, whatever their kind
internal_module_ids_all_kinds(g) == Sorted(DOMAIN g.nodes)

\* internal_module_ids: the sorted ids of the python_module nodes
internal_module_ids(g) ==
  Sorted({ nid \in DOMAIN g.nodes : g.nodes[nid].kind = "python_module" })

\* the targets of m that compute_scc_tarjan keeps in adj[m]
allowed_targets(g, module_ids, m) == GetSet(g.forward, m) \cap Range(module_ids)

RECURSIVE adj_orders_from(_, _, _)
adj_orders_from(g, module_ids, i) ==
  IF i > Len(module_ids) THEN { EmptyDict }
  ELSE { Put(rest, module_ids[i], p) :
           rest \in adj_orders_from(g, module_ids, i + 1),
           p \in Perms(allowed_targets(g, module_ids, module_ids[i])) }

\* every adj dict the list comprehension over the forward sets can build:
\* a set of str iterates in an order that depends on the hash seed of the process
adj_orders(g, module_ids) == adj_orders_from(g, module_ids, 1)

\* the variables of compute_scc_tarjan as they are after the statements `ev` of
\* strongconnect(v), appended to the history st.trace
Log(st, ev, v) ==
  [st EXCEPT !.trace = Append(@, [ev |-> ev, v |-> v, index |-> st.index,
                                  indices |-> st.indices, lowlink |-> st.lowlink,
                                  stack |-> st.stack, on_stack |-> st.on_stack,
                                  sccs |-> st.sccs])]

RECURSIVE pop_component_leaving_on_stack(_, _, _)
\* the pop loop without on_stack.remove(w)
pop_component_leaving_on_stack(st, v, comp) ==
  LET w == st.stack[Len(st.stack)]
      s1 == Log([st EXCEPT !.stack = SubSeq(@, 1, Len(@) - 1)], "pop", v)
  IN IF w = v
     THEN Log([s1 EXCEPT !.sccs = Append(@, Sorted(comp \cup {w}))], "emit", v)
     ELSE pop_component_leaving_on_stack(s1, v, comp \cup {w})

RECURSIVE pop_component(_, _, _)
\* the while loop that pops the component of v, then sccs.append(sorted(comp))
pop_component(st, v, comp) ==
  LET w == st.stack[Len(st.stack)]
      s1 == Log([st EXCEPT !.stack = SubSeq(@, 1, Len(@) - 1), !.on_stack = @ \ {w}],
                "pop", v)
  IN IF w = v
     THEN Log([s1 EXCEPT !.sccs = Append(@, Sorted(comp \cup {w}))], "emit", v)
     ELSE pop_component(s1, v, comp \cup {w})

RECURSIVE strongconnect(_, _, _)
RECURSIVE visit_successors(_, _, _, _)
\* strongconnect(v): the closure of compute_scc_tarjan, state passed explicitly
strongconnect(st, v, adj) ==
  LET s0 == Log([st EXCEPT !.indices = Put(@, v, st.index),
                           !.lowlink = Put(@, v, st.index),
                           !.index = @ + 1,
                           !.stack = Append(@, v),
                           !.on_stack = @ \cup {v}], "enter", v)
      s1 == Log(visit_successors(s0, v, adj, 1), "finish", v)
  IN IF s1.lowlink[v] = s1.indices[v] THEN pop_component(s1, v, {}) ELSE s1

RECURSIVE visit_successors_ignoring_stack(_, _, _, _)
\* the successor loop without the `elif w in on_stack` branch
visit_successors_ignoring_stack(st, v, adj, i) ==
  IF i > Len(adj[v]) THEN st
  ELSE LET w == adj[v][i]
       IN IF w \notin DOMAIN st.indices
          THEN LET s2 == strongconnect(st, w, adj)
               IN visit_successors_ignoring_stack(
                    [s2 EXCEPT !.lowlink[v] = Min(s2.lowlink[v], s2.lowlink[w])],
                    v, adj, i + 1)
          ELSE visit_successors_ignoring_stack(st, v, adj, i + 1)

\* for w in adj.get(v, [])
visit_successors(st, v, adj, i) ==
  IF i > Len(adj[v]) THEN st
  ELSE LET w == adj[v][i]
       IN IF w \notin DOMAIN st.indices
          THEN LET s2 == strongconnect(st, w, adj)
               IN visit_successors(
                    Log([s2 EXCEPT !.lowlink[v] = Min(s2.lowlink[v], s2.lowlink[w])],
                        "succ", v),
                    v, adj, i + 1)
          ELSE IF w \in st.on_stack
               THEN visit_successors(
                      Log([st EXCEPT !.lowlink[v] = Min(st.lowlink[v], st.indices[w])],
                          "succ", v),
                      v, adj, i + 1)
               ELSE visit_successors(Log(st, "succ", v), v, adj, i + 1)

RECURSIVE tarjan_roots(_, _, _, _)
\* for v in module_ids: if v not in indices: strongconnect(v)
tarjan_roots(st, module_ids, adj, i) ==
  IF i > Len(module_ids) THEN st
  ELSE tarjan_roots(IF module_ids[i] \notin DOMAIN st.indices
                    THEN strongconnect(st, module_ids[i], adj) ELSE st,
                    module_ids, adj, i + 1)

\* the variables of compute_scc_tarjan when the loop over module_ids has ended
tarjan_run(module_ids, adj) ==
  tarjan_roots([index |-> 0, stack |-> << >>, on_stack |-> {},
                indices |-> EmptyDict, lowlink |-> EmptyDict, sccs |-> << >>,
                trace |-> << >>],
               module_ids, adj, 1)

\* compute_scc_tarjan under one iteration order adj of the forward sets
compute_scc_tarjan(module_ids, adj) == tarjan_run(module_ids, adj).sccs

\* the length of the top_fan_in and top_fan_out lists
TopK == 20

\* a ranking that breaks ties by module id descending
RankBefore_ids_descending(x, y) == x[2] > y[2] \/ (x[2] = y[2] /\ StrLess(y[1], x[1]))

\* x sorts before y under key (-value, module)
RankBefore(x, y) == x[2] > y[2] \/ (x[2] = y[2] /\ StrLess(x[1], y[1]))

\* sorted(d.items(), key=lambda x: (-x[1], x[0]))[:20], as {module, value} rows
top_list(modules, d) ==
  LET items  == [k \in 1..Len(modules) |-> << modules[k], d[modules[k]] >>]
      ranked == SortSeq(items, RankBefore)
      cut    == SubSeq(ranked, 1, Min(TopK, Len(ranked)))
  IN [k \in 1..Len(cut) |-> [module |-> cut[k][1], value |-> cut[k][2]]]

\* the number of nodes of one kind
count_kind(g, kind) == Cardinality({ nid \in DOMAIN g.nodes : g.nodes[nid].kind = kind })

RECURSIVE MaxLen(_, _)
MaxLen(seqs, i) ==
  IF i > Len(seqs) THEN 0
  ELSE LET r == MaxLen(seqs, i + 1)
       IN IF Len(seqs[i]) > r THEN Len(seqs[i]) ELSE r

\* a filter that keeps the single-module components too
cyclic_sccs_of_keeping_singletons(sccs_all) == sccs_all

\* cyclic_sccs = [c for c in sccs_all if len(c) > 1]
cyclic_sccs_of(sccs_all) == SelectSeq(sccs_all, LAMBDA c : Len(c) > 1)

\* self_cycles testing `m in graph.forward` (a key) instead of forward.get(m)
self_cycles_of_by_key(g, modules) ==
  LET self_mods == SelectSeq(modules, LAMBDA m : m \in DOMAIN g.forward)
  IN [k \in 1..Len(self_mods) |-> << self_mods[k] >>]

\* self_cycles: [m] for every module found in its own forward set
self_cycles_of(g, modules) ==
  LET self_mods == SelectSeq(modules, LAMBDA m : m \in GetSet(g.forward, m))
  IN [k \in 1..Len(self_mods) |-> << self_mods[k] >>]

\* compute_metrics, with the SCC list Tarjan returned for this run
compute_metrics(g, sccs_all) ==
  LET modules    == internal_module_ids(g)
      module_set == Range(modules)
      fan_out == [m \in module_set |-> Cardinality(GetSet(g.forward, m) \cap module_set)]
      fan_in  == [m \in module_set |-> Cardinality(GetSet(g.reverse, m) \cap module_set)]
      roots    == SelectSeq(modules, LAMBDA m : fan_in[m] = 0)
      sinks    == SelectSeq(modules, LAMBDA m : fan_out[m] = 0)
      isolated == SelectSeq(modules, LAMBDA m : fan_in[m] = 0 /\ fan_out[m] = 0)
      cyclic_sccs == cyclic_sccs_of(sccs_all)
      self_cycles == self_cycles_of(g, modules)
  IN [summary |->
        [total_nodes |-> Cardinality(DOMAIN g.nodes),
         total_edges |-> Len(g.edges),
         internal_modules |-> Len(modules),
         external_packages |-> count_kind(g, "external_package"),
         config_files |-> count_kind(g, "config_file"),
         issues |-> Len(g.issues)],
      degree_metrics |->
        [fan_in |-> fan_in, fan_out |-> fan_out,
         top_fan_in |-> top_list(modules, fan_in),
         top_fan_out |-> top_list(modules, fan_out)],
      entrypoints |-> [roots |-> roots, sinks |-> sinks, isolated |-> isolated],
      cycles |->
        [scc_count |-> Len(cyclic_sccs),
         self_cycle_count |-> Len(self_cycles),
         largest_scc_size |-> MaxLen(cyclic_sccs, 1),
         sccs |-> cyclic_sccs \o self_cycles]]

(***************************************************************************)
(* Report emitter.                                                         *)
(***************************************************************************)
\* str(project_root)
ProjectRoot == "/proj"

\* graph_to_json_payload: the document json.dumps serializes
graph_to_json_payload(g, m, generated_at) ==
  LET ids == Sorted(DOMAIN g.nodes)
  IN [version |-> "1.0.0",
      generated_at |-> generated_at,
      project_root |-> ProjectRoot,
      nodes |-> [k \in 1..Len(ids) |-> g.nodes[ids[k]]],
      edges |-> g.edges,
      adjacency |->
        [forward |-> [k \in DOMAIN g.forward |-> Sorted(g.forward[k])],
         reverse |-> [k \in DOMAIN g.reverse |-> Sorted(g.reverse[k])]],
      issues |-> g.issues,
      metrics |-> m]

\* metrics_payload of write_outputs
metrics_payload(m, generated_at) ==
  [version |-> "1.0.0", generated_at |-> generated_at,
   project_root |-> ProjectRoot, metrics |-> m]

\* generate_markdown_report: the values the report prints, section by section
generate_markdown_report(g, m) ==
  LET cfg_ids == Sorted({ nid \in DOMAIN g.nodes : g.nodes[nid].kind = "config_file" })
  IN [summary |-> m.summary,
      roots |-> SubSeq(m.entrypoints.roots, 1, Min(50, Len(m.entrypoints.roots))),
      top_fan_out |-> SubSeq(m.degree_metrics.top_fan_out, 1,
                             Min(15, Len(m.degree_metrics.top_fan_out))),
      top_fan_in |-> SubSeq(m.degree_metrics.top_fan_in, 1,
                            Min(15, Len(m.degree_metrics.top_fan_in))),
      cycles |-> [m.cycles EXCEPT !.sccs = SubSeq(@, 1, Min(20, Len(@)))],
      config |-> [k \in 1..Min(100, Len(cfg_ids)) |->
                    << g.nodes[cfg_ids[k]].label,
                       SelectSeq(Sorted(GetSet(g.reverse, cfg_ids[k])),
                                 LAMBDA c : StartsWith(c, "module:")) >>],
      issues |-> SubSeq(g.issues, 1, Min(200, Len(g.issues)))]

(***************************************************************************)
(* Source trees the analyzer is run on.  A tree is the list of its files   *)
(* in the order os.walk enumerates them (a directory's own files before    *)
(* the files of its subdirectories); a parsed file is the list of its      *)
(* Call nodes and the list of its Import / ImportFrom nodes, both in       *)
(* ast.walk order.                                                         *)
(***************************************************************************)
ImportNode(names, lineno) ==
  [type |-> "Import", names |-> names, module |-> None, level |-> 0,
   lineno |-> lineno, col_offset |-> 0]

ImportFromNode(module, names, level, lineno) ==
  [type |-> "ImportFrom", names |-> names, module |-> module, level |-> level,
   lineno |-> lineno, col_offset |-> 0]

CallNode(func_kind, func, arg, lineno) ==
  [func_kind |-> func_kind, func |-> func, arg |-> arg, lineno |-> lineno, col_offset |-> 0]

\* a file ast.parse accepts
Parsed(calls, stmts) == [ok |-> TRUE, error |-> "", calls |-> calls, stmts |-> stmts]

\* a file read_text or ast.parse raises on
Unparseable == [ok |-> FALSE, error |-> "invalid syntax", calls |-> << >>, stmts |-> << >>]

File(path, src) == [path |-> path, src |-> src]

\* the files of `order` that `present` gives a content
WalkOf(order, present) ==
  LET kept == SelectSeq(order, LAMBDA q : q \in DOMAIN present)
  IN [k \in 1..Len(kept) |-> File(kept[k], present[kept[k]])]

\* one `import x` statement per name, on consecutive lines
ImportEach(names) == [k \in 1..Len(names) |-> ImportNode(<< names[k] >>, k)]

FlatModules == {"a", "b", "c"}

FlatOrder == << "a.py", "b.py", "c.py" >>

\* a flat file: unparseable, or importing up to MaxImports of the flat modules
FlatSources ==
  { Unparseable } \cup
  { Parsed(<< >>, ImportEach(Sorted(S))) :
      S \in { T \in SUBSET FlatModules : Cardinality(T) <= MaxImports } }

\* three modules in the project root, every import graph among them
FlatWalks == { WalkOf(FlatOrder, p) : p \in [Range(FlatOrder) -> FlatSources] }

\* the same three files in every order the root directory can list them
OrderWalks ==
  { [k \in 1..3 |-> File(o[k],
       CASE o[k] = "a.py" -> Parsed(<< >>, ImportEach(<< "b" >>))
         [] o[k] = "b.py" -> Unparseable
         [] o[k] = "c.py" -> Parsed(<< >>, ImportEach(<< "a" >>)))] :
    o \in Perms(Range(FlatOrder)) }

\* two multi-module cycles below one importer
ForkWalk ==
  << File("a.py", Parsed(<< >>, ImportEach(<< "b", "c" >>))),
     File("b.py", Parsed(<< >>, ImportEach(<< "d" >>))),
     File("c.py", Parsed(<< >>, ImportEach(<< "e" >>))),
     File("d.py", Parsed(<< >>, ImportEach(<< "b" >>))),
     File("e.py", Parsed(<< >>, ImportEach(<< "c" >>))) >>

PkgOrder ==
  << "__init__.py", "mod.py", "x.py",
     "pkg/__init__.py", "pkg/mod.py", "pkg/x.py",
     "pkg/sub/__init__.py", "pkg/sub/mod.py", "pkg/sub/x.py" >>

Importers == {"__init__.py", "mod.py", "pkg/mod.py", "pkg/sub/__init__.py", "pkg/sub/mod.py"}

ContextFiles == {"x.py", "pkg/__init__.py", "pkg/x.py", "pkg/sub/__init__.py", "pkg/sub/x.py"}

\* the relative imports written in the importer
RelativeStmts ==
  { ImportFromNode(None, << "x" >>, l, 1) : l \in 1..MaxLevel } \cup
  { ImportFromNode(None, << "*" >>, 1, 1),
    ImportFromNode(Some("x"), << "y" >>, 1, 1),
    ImportFromNode(Some("sub"), << "x", "mod" >>, 2, 1) }

\* one importer with one relative import, among up to two other (empty) files
PkgWalks ==
  { WalkOf(PkgOrder,
      [q \in ctx \cup {imp} |->
         IF q = imp THEN Parsed(<< >>, << st >>) ELSE Parsed(<< >>, << >>)]) :
    imp \in Importers, st \in RelativeStmts,
    ctx \in { C \in SUBSET ContextFiles : Cardinality(C) <= 2 } }

\* a.py `import b`, b.py `from . import c`, c.py empty, in package pkg
ScenarioWalk ==
  << File("pkg/a.py", Parsed(<< >>, << ImportNode(<< "b" >>, 1) >>)),
     File("pkg/b.py", Parsed(<< >>, << ImportFromNode(None, << "c" >>, 1, 1) >>)),
     File("pkg/c.py", Parsed(<< >>, << >>)) >>

ExternalStmts ==
  { ImportNode(<< "requests" >>, 1),
    ImportNode(<< "os", "os.path" >>, 1),
    ImportFromNode(Some("requests.sessions"), << "Session" >>, 0, 1),
    ImportFromNode(Some("os"), << "path" >>, 0, 1),
    ImportFromNode(Some("lib"), << "helper" >>, 0, 1) }

\* app.py with one or two imports of packages outside the tree, beside lib.py
ExternalWalks ==
  { << File("app.py", Parsed(<< >>, << s1 >>)), File("lib.py", l) >> :
      s1 \in ExternalStmts,
      l \in { Parsed(<< >>, << s >>) : s \in ExternalStmts } \cup { Parsed(<< >>, << >>) } }
  \cup
  { << File("app.py", Parsed(<< >>, << s1, [s2 EXCEPT !.lineno = 2] >>)) >> :
      s1 \in ExternalStmts, s2 \in ExternalStmts }

CollisionSources ==
  { Unparseable, Parsed(<< >>, << >>), Parsed(<< >>, << ImportNode(<< "os" >>, 1) >>),
    Parsed(<< >>, << ImportFromNode(None, << "x" >>, 2, 1) >>) }

\* a module file next to a package of the same name
CollisionWalks ==
  { << File("pkg.py", s1), File("pkg/__init__.py", s2) >> :
      s1 \in CollisionSources, s2 \in CollisionSources }

ConfigCalls ==
  { CallNode("Name", "open", Some("cfg/a.json"), 1),
    CallNode("Name", "open", Some("cfg\\a.json"), 2),
    CallNode("Attribute", "load", Some("b.YAML"), 3),
    CallNode("Name", "print", Some("c.json"), 4),
    CallNode("Name", "open", Some("notes.md"), 5),
    CallNode("Name", "open", None, 6) }

\* app.py and lib.py reading configuration files
ConfigWalks ==
  { << File("app.py", Parsed(<< c1, c2 >>, << >>)), File("lib.py", Parsed(<< c3 >>, << >>)) >> :
      c1 \in ConfigCalls, c2 \in ConfigCalls,
      c3 \in { CallNode("Name", "open", Some("cfg/a.json"), 1),
               CallNode("Name", "Path", Some("d.toml"), 1) } }

\* trees in which discovery drops files, with the ignore matcher of each
DiscoveryInputs ==
  { [walk |-> << >>, matcher |-> {}],
    [walk |-> << File("README.md", Unparseable) >>, matcher |-> {}],
    [walk |-> << File(".git/hook.py", Parsed(<< >>, << >>)),
                 File("__pycache__/a.py", Parsed(<< >>, << >>)) >>, matcher |-> {}],
    [walk |-> << File("a.py", Parsed(<< >>, ImportEach(<< "b" >>))),
                 File("b.py", Parsed(<< >>, << >>)) >>, matcher |-> {"b.py"}],
    [walk |-> << File("a.py", Parsed(<< >>, << >>)) >>, matcher |-> {"a.py"}],
    [walk |-> << File("a.py", Parsed(<< >>, ImportEach(<< "b" >>))),
                 File("notes.txt", Unparseable),
                 File("build/b.py", Parsed(<< >>, << >>)),
                 File(".pytest_cache/c.py", Parsed(<< >>, << >>)) >>, matcher |-> {}] }

\* a module file and a package of the same name reading the same configuration file
SharedConfigWalk ==
  << File("pkg.py", Parsed(<< CallNode("Name", "open", Some("cfg/a.json"), 1),
                              CallNode("Name", "open", Some("cfg/a.json"), 2) >>, << >>)),
     File("pkg/__init__.py", Parsed(<< CallNode("Name", "open", Some("cfg\\a.json"), 1) >>, << >>)) >>

MultiNameOrder == << "app.py", "pkg/sub.py", "pkg/sub/__init__.py", "pkg/sub/a.py" >>

\* the statements of app.py: several names from one module, then the module again
MultiNameStmts ==
  << ImportFromNode(Some("pkg.sub"), << "a", "b" >>, 0, 1),
     ImportNode(<< "pkg.sub" >>, 2),
     ImportNode(<< "os", "pkg.sub.a" >>, 3) >>

\* app.py importing from pkg.sub, which is a module, a package, both or absent
MultiNameWalks ==
  { WalkOf(MultiNameOrder,
      [q \in ctx \cup {"app.py"} |->
         IF q = "app.py" THEN Parsed(<< >>, MultiNameStmts) ELSE Parsed(<< >>, << >>)]) :
    ctx \in SUBSET {"pkg/sub.py", "pkg/sub/__init__.py", "pkg/sub/a.py"} }

WideModules ==
  << "ma", "mb", "mc", "md", "me", "mf", "mg", "mh", "mi", "mj", "mk",
     "ml", "mm", "mn", "mo", "mp", "mq", "mr", "ms", "mt", "mu", "mv" >>

\* what each module of the wide tree imports
WideImports(m) ==
  CASE m \in {"ma", "mb", "mc"} -> << "mu", "mv" >>
    [] m = "md" -> << "mv", "mu", "mv" >>
    [] m = "me" -> << "mt", "os" >>
    [] m = "mu" -> << "mf" >>
    [] OTHER -> << >>

\* more modules than the top lists hold, a few of them imported by several others
WideWalk ==
  [k \in 1..Len(WideModules) |->
     File(WideModules[k] \o ".py", Parsed(<< >>, ImportEach(WideImports(WideModules[k]))))]

\* a cycle whose modules also import an external package and read a config file
MixedWalk ==
  << File("a.py", Parsed(<< CallNode("Name", "open", Some("cfg/a.json"), 3) >>,
                         << ImportNode(<< "b" >>, 1), ImportNode(<< "os" >>, 2) >>)),
     File("b.py", Parsed(<< >>, << ImportNode(<< "a", "b" >>, 1),
                                   ImportFromNode(Some("os"), << "path" >>, 0, 2) >>)),
     File("c.py", Parsed(<< >>, << ImportNode(<< "c" >>, 1) >>)) >>

\* a module file that does not parse beside a package of the same name that
\* imports lib, and lib importing the module
ShadowedWalk ==
  << File("lib.py", Parsed(<< >>, << ImportNode(<< "pkg" >>, 1) >>)),
     File("pkg.py", Unparseable),
     File("pkg/__init__.py", Parsed(<< >>, << ImportNode(<< "lib" >>, 1) >>)) >>

\* the trees the CLI is run on once
SingleRunWalks ==
  FlatWalks \cup PkgWalks \cup ExternalWalks \cup ConfigWalks \cup MultiNameWalks
    \cup { SharedConfigWalk, WideWalk, MixedWalk, ShadowedWalk }

\* the trees the CLI is run on MaxRuns times in a row
RepeatedRunWalks == OrderWalks \cup CollisionWalks \cup { ForkWalk, ScenarioWalk }

Inputs ==
  { [walk |-> i.walk, matcher |-> i.matcher, planned |-> MaxRuns] : i \in DiscoveryInputs }
  \cup { [walk |-> w, matcher |-> {}, planned |-> 1] : w \in SingleRunWalks }
  \cup { [walk |-> w, matcher |-> {}, planned |-> MaxRuns] : w \in RepeatedRunWalks }

(***************************************************************************)
(* The analyzer as a state machine: main() run MaxRuns times on one tree.  *)
(***************************************************************************)
VARIABLES
  fs,        \* the tree: its files in os.walk order
  matcher,   \* the paths the ignore matcher matches
  planned,   \* how many times in a row the CLI is run on the tree
  now,       \* the wall clock
  run,       \* number of the current (or last) run of main(), 0 before the first
  pc,        \* position in main(): "idle", "build", "metrics", "write", "done"
  rc,        \* exit status of the last finished run (-1 while none has finished)
  files,     \* py_files
  index,     \* the result of build_module_index
  graph,     \* the DependencyGraph under construction
  fi,        \* position of build_dependency_graph in files
  si,        \* position in the import nodes of files[fi]; 0 before the file is parsed
  metrics,   \* the result of compute_metrics
  disk,      \* the three artifacts in the output directory
  emitted    \* the dependencies_graph.json documents written so far, one per run

vars == << fs, matcher, planned, now, run, pc, rc, files, index, graph, fi, si, metrics, disk, emitted >>

Artifacts == {"dependencies_graph.json", "architecture_metrics.yaml", "dependencies_report.md"}

Absent == [written_by |-> 0]

Written(r, content) == [written_by |-> r, content |-> content]

EmptyIndex ==
  [module_to_file |-> EmptyDict, file_to_module |-> EmptyDict, module_is_package |-> EmptyDict]

NoMetrics == [computed |-> FALSE]

Init ==
  /\ \E inp \in Inputs : fs = inp.walk /\ matcher = inp.matcher /\ planned = inp.planned
  /\ now = 0
  /\ run = 0
  /\ pc = "idle"
  /\ rc = -1
  /\ files = << >>
  /\ index = EmptyIndex
  /\ graph = EmptyGraph
  /\ fi = 0
  /\ si = 0
  /\ metrics = NoMetrics
  /\ disk = [a \in Artifacts |-> Absent]
  /\ emitted = << >>

\* the content of a discovered file
SourceOf(rel) == (CHOOSE k \in 1..Len(fs) : fs[k].path = rel)

CurRel == files[fi]

CurSrc == fs[SourceOf(CurRel)].src

CurModule == module_name_from_path(CurRel)

CurSourceId == "module:" \o CurModule[1]

\* a main() that returns 0 when nothing was discovered
StartRun_empty_returns_0 ==
  /\ pc \in {"idle", "done"}
  /\ run < planned
  /\ run' = run + 1
  /\ now' = now + 1
  /\ LET py_files == discover_python_files(fs, matcher)
         idx == build_module_index(py_files)
     IN /\ files' = py_files
        /\ IF Len(py_files) = 0
           THEN /\ pc' = "done"
                /\ rc' = 0
                /\ index' = EmptyIndex
                /\ graph' = EmptyGraph
                /\ fi' = 0
           ELSE /\ pc' = "build"
                /\ rc' = -1
                /\ index' = idx
                /\ graph' = module_nodes(idx)
                /\ fi' = 1
  /\ si' = 0
  /\ metrics' = NoMetrics
  /\ UNCHANGED << fs, matcher, planned, disk, emitted >>

\* main() up to the first file of build_dependency_graph: discovery, the module
\* index and the python_module nodes; return 1 when nothing was discovered
StartRun ==
  /\ pc \in {"idle", "done"}
  /\ run < planned
  /\ run' = run + 1
  /\ now' = now + 1
  /\ LET py_files == discover_python_files(fs, matcher)
         idx == build_module_index(py_files)
     IN /\ files' = py_files
        /\ IF Len(py_files) = 0
           THEN /\ pc' = "done"
                /\ rc' = 1
                /\ index' = EmptyIndex
                /\ graph' = EmptyGraph
                /\ fi' = 0
           ELSE /\ pc' = "build"
                /\ rc' = -1
                /\ index' = idx
                /\ graph' = module_nodes(idx)
                /\ fi' = 1
  /\ si' = 0
  /\ metrics' = NoMetrics
  /\ UNCHANGED << fs, matcher, planned, disk, emitted >>

\* the except branch leaving the file loop (break) instead of continuing
ParseFailure_break ==
  /\ pc = "build" /\ fi <= Len(files) /\ si = 0
  /\ ~CurSrc.ok
  /\ graph' = add_issue(graph, Issue("parse_error", CurRel, CurSrc.error, None))
  /\ fi' = Len(files) + 1
  /\ UNCHANGED << fs, matcher, planned, now, run, pc, rc, files, index, si, metrics, disk, emitted >>

\* read_text / ast.parse raises: one parse_error issue, continue with the next file
ParseFailure ==
  /\ pc = "build" /\ fi <= Len(files) /\ si = 0
  /\ ~CurSrc.ok
  /\ graph' = add_issue(graph, Issue("parse_error", CurRel, CurSrc.error, None))
  /\ fi' = fi + 1
  /\ UNCHANGED << fs, matcher, planned, now, run, pc, rc, files, index, si, metrics, disk, emitted >>

\* the file parses: its config edges are added, then its import nodes are walked
ParseAndConfig ==
  /\ pc = "build" /\ fi <= Len(files) /\ si = 0
  /\ CurSrc.ok
  /\ graph' = config_edges(graph, CurSrc, CurSourceId)
  /\ IF Len(CurSrc.stmts) = 0
     THEN fi' = fi + 1 /\ si' = 0
     ELSE fi' = fi /\ si' = 1
  /\ UNCHANGED << fs, matcher, planned, now, run, pc, rc, files, index, metrics, disk, emitted >>

\* after the node at si: the next node of the file, or the next file
NextNode ==
  IF si = Len(CurSrc.stmts)
  THEN fi' = fi + 1 /\ si' = 0
  ELSE fi' = fi /\ si' = si + 1

\* one ast.Import node
ImportStep ==
  /\ pc = "build" /\ fi <= Len(files) /\ si >= 1
  /\ CurSrc.stmts[si].type = "Import"
  /\ graph' = process_import(graph, CurSrc.stmts[si], CurSourceId, CurRel, index.module_to_file)
  /\ NextNode
  /\ UNCHANGED << fs, matcher, planned, now, run, pc, rc, files, index, metrics, disk, emitted >>

\* one ast.ImportFrom node
ImportFromStep ==
  /\ pc = "build" /\ fi <= Len(files) /\ si >= 1
  /\ CurSrc.stmts[si].type = "ImportFrom"
  /\ graph' = process_import_from(graph, CurSrc.stmts[si], CurModule[1], CurModule[2],
                                  CurSourceId, CurRel, index.module_to_file)
  /\ NextNode
  /\ UNCHANGED << fs, matcher, planned, now, run, pc, rc, files, index, metrics, disk, emitted >>

\* compute_metrics, Tarjan iterating the forward sets in the order this process gives them
ComputeMetrics ==
  /\ pc = "build" /\ fi > Len(files)
  /\ LET modules == internal_module_ids(graph)
     IN \E adj \in adj_orders(graph, modules) :
          metrics' = compute_metrics(graph, compute_scc_tarjan(modules, adj))
  /\ pc' = "write"
  /\ UNCHANGED << fs, matcher, planned, now, run, rc, files, index, graph, fi, si, disk, emitted >>

\* the steps of write_outputs that can raise, in execution order
WriteSteps == << "mkdir", "dependencies_graph.json", "architecture_metrics.yaml", "dependencies_report.md" >>

\* write_outputs then return 0; `done` is the number of steps that succeed
\* before one raises (4: none raises), and an exception leaves main() uncaught
WriteOutputs ==
  /\ pc = "write"
  /\ \E done \in 0..Len(WriteSteps) :
       LET content == [a \in Artifacts |->
                         CASE a = "dependencies_graph.json" ->
                                graph_to_json_payload(graph, metrics, now)
                           [] a = "architecture_metrics.yaml" ->
                                metrics_payload(metrics, now)
                           [] a = "dependencies_report.md" ->
                                generate_markdown_report(graph, metrics)]
           wrote == { WriteSteps[k] : k \in 2..done }
       IN /\ disk' = [a \in Artifacts |->
                        IF a \in wrote THEN Written(run, content[a]) ELSE disk[a]]
          /\ emitted' = IF "dependencies_graph.json" \in wrote
                        THEN Append(emitted, content["dependencies_graph.json"])
                        ELSE emitted
          /\ rc' = IF done = Len(WriteSteps) THEN 0 ELSE 1
  /\ pc' = "done"
  /\ UNCHANGED << fs, matcher, planned, now, run, files, index, graph, fi, si, metrics >>

Next ==
  \/ StartRun
  \/ ParseFailure
  \/ ParseAndConfig
  \/ ImportStep
  \/ ImportFromStep
  \/ ComputeMetrics
  \/ WriteOutputs

Spec == Init /\ [][Next]_vars

(***************************************************************************)
(* Vocabulary of the properties.                                           *)
(***************************************************************************)
\* compute_metrics has run in the current run
HasMetrics == "cycles" \in DOMAIN metrics

\* build_module_index has run in the current run
IndexBuilt == pc \in {"build", "write", "done"} /\ Len(files) > 0

\* build_dependency_graph has returned in the current run
BuildEnded == pc \in {"write", "done"} /\ Len(files) > 0

InternalIds == { nid \in DOMAIN graph.nodes : graph.nodes[nid].kind = "python_module" }

ExternalIds == { nid \in DOMAIN graph.nodes : graph.nodes[nid].kind = "external_package" }

\* the internal modules m has an edge to
InternalSucc(m) == { e.target : e \in { x \in Range(graph.edges) : x.source = m } } \cap InternalIds

RECURSIVE Closure(_)
Closure(S) ==
  LET T == S \cup UNION { InternalSucc(m) : m \in S }
  IN IF T = S THEN S ELSE Closure(T)

\* b is reached from a along one or more edges between internal modules
Reaches(a, b) == b \in Closure(InternalSucc(a))

\* the modules that reach a and are reached from a
Component(a) == { b \in InternalIds : b = a \/ (Reaches(a, b) /\ Reaches(b, a)) }

\* the maximal sets of two or more mutually reaching internal modules
ExpectedCycles == { c \in { Component(a) : a \in InternalIds } : Cardinality(c) >= 2 }

\* the multi-module components and the self-cycle entries of metrics.cycles.sccs
ReportedCycles == SubSeq(metrics.cycles.sccs, 1, metrics.cycles.scc_count)

ReportedSelfCycles ==
  SubSeq(metrics.cycles.sccs, metrics.cycles.scc_count + 1, Len(metrics.cycles.sccs))

\* the (source, target) pairs of the imports edges, in edge order
ImportPairs ==
  LET imps == SelectSeq(graph.edges, LAMBDA e : e.kind = "imports")
  IN [k \in 1..Len(imps) |-> << imps[k].source, imps[k].target >>]

\* the number of issues of one type, over all files or for one file
IssueCount(g, type) == Cardinality({ k \in 1..Len(g.issues) : g.issues[k].type = type })

IssueCountFor(g, type, file) ==
  Cardinality({ k \in 1..Len(g.issues) : g.issues[k].type = type /\ g.issues[k].file = file })

\* build_dependency_graph is about to handle a file / an import node
AtFile == pc = "build" /\ fi <= Len(files) /\ si = 0

AtNode == pc = "build" /\ fi <= Len(files) /\ si >= 1

\* the edges and issues the step adds
AddedEdges == SubSeq(graph'.edges, Len(graph.edges) + 1, Len(graph'.edges))

AddedIssues == SubSeq(graph'.issues, Len(graph.issues) + 1, Len(graph'.issues))

\* the step only appends to the edge and issue lists
Extends ==
  /\ Len(graph'.edges) >= Len(graph.edges)
  /\ SubSeq(graph'.edges, 1, Len(graph.edges)) = graph.edges
  /\ Len(graph'.issues) >= Len(graph.issues)
  /\ SubSeq(graph'.issues, 1, Len(graph.issues)) = graph.issues

\* the dotted prefixes of a candidate, the candidate included
DottedPrefixes(candidate) ==
  LET parts == Split(candidate, ".")
  IN { Join(SubSeq(parts, 1, k), ".") : k \in 1..Len(parts) }

\* the node an import of `candidate` is expected to point at: the longest dotted
\* prefix that is an internal module, else the external node of the candidate
LongestPrefixTarget(candidate) ==
  LET known == DottedPrefixes(candidate) \cap DOMAIN index.module_to_file
  IN IF known = {} THEN "external:" \o candidate
     ELSE "module:" \o (CHOOSE q \in known : \A r \in known : Len(r) <= Len(q))

(***************************************************************************)
(* C1: after any run of write_outputs, failed or not, either all three     *)
(* artifacts were written by this run or none was.                         *)
(***************************************************************************)
C1_AllArtifactsOrNone ==
  pc = "done" =>
    \/ \A a \in Artifacts : disk[a].written_by = run
    \/ \A a \in Artifacts : disk[a].written_by # run

(***************************************************************************)
(* C2: two consecutive runs on the same tree write identical               *)
(* dependencies_graph.json documents, every field included.                *)
(***************************************************************************)
C2_RunsWriteIdenticalDocuments ==
  \A i, j \in 1..Len(emitted) : emitted[i] = emitted[j]

(***************************************************************************)
(* C3: the components of size > 1 that compute_metrics reports are exactly *)
(* the maximal sets of two or more internal modules that reach one another *)
(* along internal edges, each reported once, and scc_count is their number.*)
(***************************************************************************)
C3_SccsAreTheCycles ==
  HasMetrics =>
    /\ { Range(ReportedCycles[k]) : k \in 1..Len(ReportedCycles) } = ExpectedCycles
    /\ \A k \in 1..Len(ReportedCycles) :
         Cardinality(Range(ReportedCycles[k])) = Len(ReportedCycles[k])
    /\ metrics.cycles.scc_count = Cardinality(ExpectedCycles)
    /\ metrics.cycles.scc_count <= Len(metrics.cycles.sccs)

\* a.py and b.py import each other: one component {a, b}, no self-cycle
C3_Witness ==
  /\ HasMetrics
  /\ { << "module:a", "module:b" >>, << "module:b", "module:a" >> } \subseteq Range(ImportPairs)
  /\ metrics.cycles.sccs = << << "module:a", "module:b" >> >>
  /\ metrics.cycles.scc_count = 1
  /\ metrics.cycles.self_cycle_count = 0

(***************************************************************************)
(* C4: an internal module is reported as a self-cycle singleton iff it is  *)
(* in its own forward set, and self_cycle_count is the number of such      *)
(* modules.                                                                *)
(***************************************************************************)
C4_SelfCyclesAreSelfImports ==
  HasMetrics =>
    LET selfs == { m \in InternalIds : m \in GetSet(graph.forward, m) }
    IN /\ Range(ReportedSelfCycles) = { << m >> : m \in selfs }
       /\ Len(ReportedSelfCycles) = Cardinality(selfs)
       /\ metrics.cycles.self_cycle_count = Cardinality(selfs)
       /\ \A k \in 1..Len(ReportedCycles) : Len(ReportedCycles[k]) > 1

\* a.py imports itself and nothing else forms a cycle
C4_Witness ==
  /\ HasMetrics
  /\ "module:a" \in GetSet(graph.forward, "module:a")
  /\ metrics.cycles.scc_count = 0
  /\ metrics.cycles.sccs = << << "module:a" >> >>
  /\ metrics.cycles.self_cycle_count = 1

\* the step that handles a file read_text or ast.parse raises on
C5_ParseFailureStep ==
  (AtFile /\ ~CurSrc.ok) =>
    /\ graph'.issues = Append(graph.issues, Issue("parse_error", CurRel, CurSrc.error, None))
    /\ graph'.edges = graph.edges
    /\ graph'.nodes = graph.nodes
    /\ graph'.forward = graph.forward
    /\ pc' = "build" /\ fi' = fi + 1 /\ si' = 0

\* once the build has returned: every file was reached, one parse_error per failing file
C5_AfterBuild ==
  BuildEnded =>
    /\ fi = Len(files) + 1
    /\ \A k \in 1..Len(files) :
         IssueCountFor(graph, "parse_error", files[k])
           = (IF fs[SourceOf(files[k])].src.ok THEN 0 ELSE 1)

C6_ExternalKeyedByFirstSegment ==
  /\ \A e \in Range(graph.edges) :
       (e.kind = "imports" /\ e.target \in ExternalIds)
         => e.target = "external:" \o Split(e.raw, ".")[1]
  /\ \A n1, n2 \in ExternalIds :
       Split(graph.nodes[n1].label, ".")[1] = Split(graph.nodes[n2].label, ".")[1]
         => n1 = n2

(***************************************************************************)
(* C7: pkg/a.py `import b`, pkg/b.py `from . import c`, pkg/c.py empty.    *)
(* As claimed: 3 internal nodes, edges pkg.a->pkg.b and pkg.b->pkg.c,      *)
(* roots {pkg.a}, sinks {pkg.c}, no cycle.                                 *)
(***************************************************************************)
C7_ScenarioAsClaimed ==
  (fs = ScenarioWalk /\ HasMetrics) =>
    /\ Cardinality(InternalIds) = 3
    /\ ImportPairs = << << "module:pkg.a", "module:pkg.b" >>,
                        << "module:pkg.b", "module:pkg.c" >> >>
    /\ metrics.entrypoints.roots = << "module:pkg.a" >>
    /\ metrics.entrypoints.sinks = << "module:pkg.c" >>
    /\ metrics.cycles.sccs = << >>

(***************************************************************************)
(* C7 amended: the absolute `import b` matches no internal module (the     *)
(* index holds pkg.a, pkg.b, pkg.c), so the graph has 3 internal nodes and *)
(* one external node b, the imports edges pkg.a->external:b and            *)
(* pkg.b->pkg.c, roots {pkg.a, pkg.b}, sinks {pkg.a, pkg.c}, no cycle and  *)
(* no issue.                                                               *)
(***************************************************************************)
C7_ScenarioAmended ==
  (fs = ScenarioWalk /\ HasMetrics) =>
    /\ InternalIds = {"module:pkg.a", "module:pkg.b", "module:pkg.c"}
    /\ ExternalIds = {"external:b"}
    /\ ImportPairs = << << "module:pkg.a", "external:b" >>,
                        << "module:pkg.b", "module:pkg.c" >> >>
    /\ Len(graph.edges) = 2
    /\ metrics.entrypoints.roots = << "module:pkg.a", "module:pkg.b" >>
    /\ metrics.entrypoints.sinks = << "module:pkg.a", "module:pkg.c" >>
    /\ metrics.cycles.sccs = << >>
    /\ metrics.cycles.scc_count = 0 /\ metrics.cycles.self_cycle_count = 0
    /\ graph.issues = << >>

C7_Witness ==
  /\ fs = ScenarioWalk
  /\ HasMetrics
  /\ Len(graph.edges) = 2

\* the build is at `from <level dots> import x` in pkg/sub/mod.py
AtSubModImport(level) ==
  /\ AtNode
  /\ CurRel = "pkg/sub/mod.py"
  /\ CurSrc.stmts[si] = ImportFromNode(None, << "x" >>, level, CurSrc.stmts[si].lineno)

\* the edge the claim expects of the step
C8_TargetAsClaimed ==
  /\ AtSubModImport(1) =>
       (Len(AddedEdges) = 1 /\ AddedEdges[1].target = "module:pkg.sub")
  /\ AtSubModImport(2) =>
       (Len(AddedEdges) = 1 /\ AddedEdges[1].target = "module:pkg")

(***************************************************************************)
(* C8: in the non-initializer module pkg.sub.mod, `from . import x` adds   *)
(* an edge to module:pkg.sub and `from .. import x` an edge to module:pkg. *)
(***************************************************************************)
C8_RelativeImportTargetsPackage == [][C8_TargetAsClaimed]_vars

\* the edge the code adds in the step
C8_TargetAmended ==
  /\ AtSubModImport(1) =>
       /\ Len(AddedEdges) = 1
       /\ AddedEdges[1].raw = "pkg.sub.x"
       /\ AddedEdges[1].import_type = Some("relative_import")
       /\ AddedEdges[1].source = "module:pkg.sub.mod"
       /\ AddedEdges[1].target = LongestPrefixTarget("pkg.sub.x")
  /\ AtSubModImport(2) =>
       /\ Len(AddedEdges) = 1
       /\ AddedEdges[1].raw = "pkg.x"
       /\ AddedEdges[1].import_type = Some("relative_import")
       /\ AddedEdges[1].source = "module:pkg.sub.mod"
       /\ AddedEdges[1].target = LongestPrefixTarget("pkg.x")

(***************************************************************************)
(* C8 amended: in the non-initializer module pkg.sub.mod, `from . import x`*)
(* resolves against base pkg.sub to candidate pkg.sub.x, and `from ..      *)
(* import x` against base pkg to candidate pkg.x; the one imports edge     *)
(* points at the longest dotted prefix of the candidate that is an         *)
(* internal module (module:pkg.sub, resp. module:pkg, only when that       *)
(* package is internal and the candidate is not), else at the external     *)
(* node of the candidate.                                                  *)
(***************************************************************************)
C8_RelativeImportTargetsLongestPrefix == [][C8_TargetAmended]_vars

\* pkg/sub/mod.py has imported x from its package, which has a module x
C8_Witness ==
  /\ pc = "build"
  /\ \E e \in Range(graph.edges) :
       /\ e.source = "module:pkg.sub.mod"
       /\ e.raw = "pkg.sub.x"
       /\ e.target = "module:pkg.sub.x"

\* the segments of the package of the current module
PackageSegs ==
  LET segs == Split(CurModule[1], ".")
  IN IF CurModule[2] THEN segs ELSE SubSeq(segs, 1, Len(segs) - 1)

AtRelativeImport == AtNode /\ CurSrc.stmts[si].type = "ImportFrom" /\ CurSrc.stmts[si].level > 0

\* the candidates of the current relative import, from the base the claim states
ExpectedRaws ==
  LET node == CurSrc.stmts[si]
      base == Join(SubSeq(PackageSegs, 1, Len(PackageSegs) - (node.level - 1)), ".")
      mod  == IF node.module.isNone THEN "" ELSE node.module.val
      import_base == IF base = "" THEN mod ELSE IF mod = "" THEN base ELSE base \o "." \o mod
      named == SelectSeq(node.names, LAMBDA a : import_base # "" \/ a # "*")
  IN [k \in 1..Len(named) |->
        IF named[k] = "*" THEN import_base
        ELSE IF import_base = "" THEN named[k]
        ELSE import_base \o "." \o named[k]]

\* what one step of the build does about relative_import_error
C9_RelativeStep ==
  IF AtRelativeImport
  THEN IF CurSrc.stmts[si].level - 1 > Len(PackageSegs)
       THEN /\ graph'.issues = Append(graph.issues,
                 Issue("relative_import_error", CurRel,
                       << "Unable to resolve relative import", CurSrc.stmts[si].level,
                          base_module_of(CurSrc.stmts[si]) >>,
                       Some(CurSrc.stmts[si].lineno)))
            /\ graph'.edges = graph.edges
            /\ graph'.nodes = graph.nodes
       ELSE /\ Extends
            /\ IssueCount(graph', "relative_import_error") = IssueCount(graph, "relative_import_error")
            /\ [k \in 1..Len(AddedEdges) |-> AddedEdges[k].raw] = ExpectedRaws
            /\ \A k \in 1..Len(AddedEdges) :
                 AddedEdges[k].import_type = Some("relative_import")
  ELSE (pc = "build" /\ pc' = "build")
         => IssueCount(graph', "relative_import_error") = IssueCount(graph, "relative_import_error")

(***************************************************************************)
(* C9: a relative import of level L in module M resolves against the       *)
(* package of M (M itself for an initializer, else M without its last      *)
(* segment) with L-1 trailing segments dropped; when L-1 exceeds the       *)
(* number of segments, the statement adds one relative_import_error issue  *)
(* and no edge, and no other step adds a relative_import_error.            *)
(***************************************************************************)
C9_RelativeBaseAndError == [][C9_RelativeStep]_vars

\* `from .. import x` in the root-level mod.py: one error, no edge
C9_Witness ==
  /\ BuildEnded
  /\ files[1] = "mod.py"
  /\ fs[SourceOf("mod.py")].src.stmts = << ImportFromNode(None, << "x" >>, 2, 1) >>
  /\ IssueCountFor(graph, "relative_import_error", "mod.py") = 1
  /\ graph.edges = << >>

(***************************************************************************)
(* C10: module_to_file and file_to_module are total mutual inverses over   *)
(* the discovered files, and there are as many internal module nodes as    *)
(* discovered files.                                                       *)
(***************************************************************************)
C10_IndexIsBijection ==
  IndexBuilt =>
    /\ DOMAIN index.file_to_module = Range(files)
    /\ \A f \in Range(files) :
         /\ index.file_to_module[f] \in DOMAIN index.module_to_file
         /\ index.module_to_file[index.file_to_module[f]] = f
    /\ \A m \in DOMAIN index.module_to_file :
         /\ index.module_to_file[m] \in DOMAIN index.file_to_module
         /\ index.file_to_module[index.module_to_file[m]] = m
    /\ Cardinality(InternalIds) = Len(files)

\* the number of candidates the current import node names: every alias of an
\* Import, every name of an ImportFrom but a `*` with nothing to stand for
ImportOccurrences ==
  LET node == CurSrc.stmts[si]
  IN IF node.type = "Import" THEN Len(node.names)
     ELSE IF node.level > 0
          THEN (IF node.level - 1 > Len(PackageSegs) THEN 0 ELSE Len(ExpectedRaws))
          ELSE Len(SelectSeq(node.names, LAMBDA a : base_module_of(node) # "" \/ a # "*"))

\* an import node appends one imports edge per occurrence it names
C11_ImportStepEdges ==
  AtNode =>
    /\ Extends
    /\ Len(AddedEdges) = ImportOccurrences
    /\ \A k \in 1..Len(AddedEdges) :
         AddedEdges[k].kind = "imports" /\ AddedEdges[k].source = CurSourceId

\* one config_access edge per (source, target), one config_file node per path
C11_ConfigDeduplicated ==
  /\ \A k, l \in 1..Len(graph.edges) :
       (k < l /\ graph.edges[k].kind = "config_access" /\ graph.edges[l].kind = "config_access")
         => << graph.edges[k].source, graph.edges[k].target >>
              # << graph.edges[l].source, graph.edges[l].target >>
  /\ \A a, b \in { nid \in DOMAIN graph.nodes : graph.nodes[nid].kind = "config_file" } :
       normalize_config_path(graph.nodes[a].label) = normalize_config_path(graph.nodes[b].label)
         => a = b

(***************************************************************************)
(* C11: imports edges are never deduplicated (every occurrence named by an *)
(* import statement appends its own edge, whatever pairs already have      *)
(* one), while the edge list holds at most one config_access edge per      *)
(* (source, target) pair and the graph at most one config_file node per    *)
(* separator-normalized path.                                              *)
(***************************************************************************)
C11_OnlyConfigEdgesDeduplicated == [][C11_ImportStepEdges]_vars /\ []C11_ConfigDeduplicated

\* the edges one import statement adds point at pairwise different targets
C12_StatementEdges ==
  AtNode =>
    \A k, l \in 1..Len(AddedEdges) :
      k < l => << AddedEdges[k].source, AddedEdges[k].target >>
                 # << AddedEdges[l].source, AddedEdges[l].target >>

(***************************************************************************)
(* C12: one import statement adds exactly one imports edge per distinct    *)
(* resolved (source, target) pair: `from pkg.sub import a, b`, both names  *)
(* resolving to the internal module pkg.sub, adds one edge to pkg.sub and  *)
(* not one per imported name.                                              *)
(***************************************************************************)
C12_OneEdgePerPairPerStatement == [][C12_StatementEdges]_vars

\* the step of an import node leaves an edge or an issue behind
C13_StatementTrace ==
  AtNode => (Len(graph'.edges) > Len(graph.edges) \/ Len(graph'.issues) > Len(graph.issues))

(***************************************************************************)
(* C13: every import statement of a parseable file adds at least one       *)
(* imports edge or at least one issue; a wildcard import whose target      *)
(* cannot be resolved (`from . import *` with an empty resolved base) is   *)
(* recorded as an issue, never dropped silently.                           *)
(***************************************************************************)
C13_EveryImportLeavesATrace == [][C13_StatementTrace]_vars

\* the module ids of the discovered files
DiscoveredModules == { module_name_from_path(files[k])[1] : k \in 1..Len(files) }

\* an import node is resolved against the modules of all the discovered files,
\* those of the files the build has not reached yet included
C14_ResolvedAgainstAllFiles ==
  AtNode =>
    /\ DOMAIN index.module_to_file = DiscoveredModules
    /\ \A k \in 1..Len(AddedEdges) :
         LET e == AddedEdges[k]
             known == DottedPrefixes(e.raw) \cap DiscoveredModules
         IN /\ e.raw \in DiscoveredModules => e.target = "module:" \o e.raw
            /\ known # {} <=> StartsWith(e.target, "module:")
            /\ known = {} <=> e.target = "external:" \o e.raw

(***************************************************************************)
(* C14: the module index over all discovered files is complete before the  *)
(* first import is resolved: an import in f naming the module of a file g  *)
(* discovered after f points at g's internal module node, never at an      *)
(* external node, so the internal-or-external classification of an import  *)
(* does not depend on discovery order.                                     *)
(***************************************************************************)
C14_IndexCompleteBeforeImports == [][C14_ResolvedAgainstAllFiles]_vars

\* an import of a module whose file comes later in discovery order, resolved to
\* its internal node while the build has not reached that file
C14_Witness ==
  /\ pc = "build"
  /\ \E i, j \in 1..Len(files) :
       /\ i < j
       /\ fi <= j
       /\ \E e \in Range(graph.edges) :
            /\ e.kind = "imports"
            /\ e.source = "module:" \o module_name_from_path(files[i])[1]
            /\ e.raw = module_name_from_path(files[j])[1]
            /\ e.target = "module:" \o e.raw

\* the candidates pick_internal_module is evaluated on
PickCandidates ==
  { "pkg", "pkg.sub", "pkg.sub.x", "pkg.sub.x.y", "pkg.sub.a", "pkg.sub.mod", "pkg.x",
    "pkg.mod.x", "x", "x.y", "mod", "a", "a.b", "b.a.c", "__init__.x", "os.path", "pkgs.sub" }

\* the result the claim gives for a candidate and a set of index keys
ExpectedPick(candidate, keys) ==
  LET proper == (DottedPrefixes(candidate) \ {candidate, ""}) \cap keys
  IN IF candidate \in keys THEN Some(candidate)
     ELSE IF proper = {} THEN None
     ELSE Some(CHOOSE q \in proper : \A r \in proper : Len(r) <= Len(q))

C15_PickOnIndex ==
  IndexBuilt =>
    \A c \in PickCandidates :
      pick_internal_module(c, index.module_to_file)
        = ExpectedPick(c, DOMAIN index.module_to_file)

\* `from pkg.sub import <symbol>` with pkg.sub internal and pkg.sub.<symbol> not
C15_FromImportStep ==
  (/\ AtNode
   /\ CurSrc.stmts[si].type = "ImportFrom"
   /\ CurSrc.stmts[si].level = 0
   /\ CurSrc.stmts[si].module = Some("pkg.sub")
   /\ "pkg.sub" \in DOMAIN index.module_to_file)
  => \A k \in 1..Len(CurSrc.stmts[si].names) :
       LET c == "pkg.sub." \o CurSrc.stmts[si].names[k]
       IN /\ AddedEdges[k].raw = c
          /\ c \notin DOMAIN index.module_to_file => AddedEdges[k].target = "module:pkg.sub"
          /\ c \in DOMAIN index.module_to_file => AddedEdges[k].target = "module:" \o c

(***************************************************************************)
(* C15: pick_internal_module(candidate, index) returns candidate when it   *)
(* is a key of the index, otherwise the longest proper dotted prefix of    *)
(* candidate that is a key, and no match only when no non-empty dotted     *)
(* prefix is a key; so `from pkg.sub import symbol` resolves to pkg.sub    *)
(* when pkg.sub is internal and pkg.sub.symbol is not.                     *)
(***************************************************************************)
C15_PickIsLongestKnownPrefix == []C15_PickOnIndex /\ [][C15_FromImportStep]_vars

\* `from pkg.sub import a, b` resolved to pkg.sub for b and to the module pkg.sub.a for a
C15_Witness ==
  /\ pc = "build"
  /\ {"pkg.sub", "pkg.sub.a"} \subseteq DOMAIN index.module_to_file
  /\ "pkg.sub.b" \notin DOMAIN index.module_to_file
  /\ \E e \in Range(graph.edges) :
       e.raw = "pkg.sub.b" /\ e.import_type = Some("from_import") /\ e.target = "module:pkg.sub"
  /\ \E e \in Range(graph.edges) :
       e.raw = "pkg.sub.a" /\ e.import_type = Some("from_import") /\ e.target = "module:pkg.sub.a"

\* the internal modules with an edge to m, read off the edge list
InternalPred(m) == { e.source : e \in { x \in Range(graph.edges) : x.target = m } } \cap InternalIds

\* a sequence lists the members of a set, each once
Lists(seq, S) == Range(seq) = S /\ Len(seq) = Cardinality(S)

(***************************************************************************)
(* C16: roots is exactly the set of internal modules with fan-in 0, sinks  *)
(* exactly those with fan-out 0, and isolated exactly those with both      *)
(* (roots intersected with sinks); a module imported by nothing internal   *)
(* and importing nothing internal is in roots and in isolated.             *)
(***************************************************************************)
C16_RootsSinksIsolated ==
  HasMetrics =>
    LET roots    == metrics.entrypoints.roots
        sinks    == metrics.entrypoints.sinks
        isolated == metrics.entrypoints.isolated
    IN /\ Lists(roots, { m \in InternalIds : InternalPred(m) = {} })
       /\ Lists(sinks, { m \in InternalIds : InternalSucc(m) = {} })
       /\ Lists(isolated, Range(roots) \cap Range(sinks))
       /\ \A m \in InternalIds :
            (InternalPred(m) = {} /\ InternalSucc(m) = {})
              => (m \in Range(roots) /\ m \in Range(isolated))

\* an isolated module beside a module that is a root only and one that is a sink only
C16_Witness ==
  /\ HasMetrics
  /\ \E a, b, c \in InternalIds :
       /\ a \in Range(metrics.entrypoints.isolated) /\ a \in Range(metrics.entrypoints.roots)
       /\ b \in Range(metrics.entrypoints.roots) /\ b \notin Range(metrics.entrypoints.sinks)
       /\ c \in Range(metrics.entrypoints.sinks) /\ c \notin Range(metrics.entrypoints.roots)

(***************************************************************************)
(* C17: for every internal module m, fan_out[m] is the number of distinct  *)
(* internal modules m has at least one edge to and fan_in[m] the number of *)
(* distinct internal modules with at least one edge to m: repeated imports *)
(* between one pair count once, edges to external or config nodes count    *)
(* for nothing.                                                            *)
(***************************************************************************)
C17_FanCountsDistinctInternalNeighbours ==
  HasMetrics =>
    /\ DOMAIN metrics.degree_metrics.fan_out = InternalIds
    /\ DOMAIN metrics.degree_metrics.fan_in = InternalIds
    /\ \A m \in InternalIds :
         /\ metrics.degree_metrics.fan_out[m] = Cardinality(InternalSucc(m))
         /\ metrics.degree_metrics.fan_in[m] = Cardinality(InternalPred(m))

\* a module with several edges to one internal module and an edge to an external
\* package has fan-out 1, and its target fan-in 1
C17_Witness ==
  /\ HasMetrics
  /\ \E m, t \in InternalIds :
       /\ Cardinality({ k \in 1..Len(graph.edges) :
                          graph.edges[k].source = m /\ graph.edges[k].target = t }) >= 2
       /\ \E e \in Range(graph.edges) : e.source = m /\ e.target \in ExternalIds
       /\ metrics.degree_metrics.fan_out[m] = 1
       /\ metrics.degree_metrics.fan_in[t] = 1

\* row x ranks before row y: higher value first, ties by module id ascending
RowBefore(x, y) == x.value > y.value \/ (x.value = y.value /\ StrLess(x.module, y.module))

\* `top` is the head of the ranking of the internal modules by `fan`
IsTopList(top, fan(_)) ==
  LET listed == { top[k].module : k \in 1..Len(top) }
  IN /\ Len(top) <= TopK
     /\ Len(top) = Min(TopK, Cardinality(InternalIds))
     /\ listed \subseteq InternalIds
     /\ Cardinality(listed) = Len(top)
     /\ \A k \in 1..Len(top) : top[k].value = fan(top[k].module)
     /\ \A k, l \in 1..Len(top) : k < l => RowBefore(top[k], top[l])
     /\ \A m \in InternalIds \ listed :
          \A k \in 1..Len(top) : RowBefore(top[k], [module |-> m, value |-> fan(m)])

EdgeFanOut(m) == Cardinality(InternalSucc(m))

EdgeFanIn(m) == Cardinality(InternalPred(m))

(***************************************************************************)
(* C18: top_fan_out and top_fan_in each hold at most 20 entries, ordered   *)
(* by value descending with ties broken by module id ascending, and every  *)
(* module left out ranks after every module listed under that order; the   *)
(* lists are determined by the node and edge sets, so equal graphs give    *)
(* identical lists.                                                        *)
(***************************************************************************)
C18_TopListsAreRankedHeads ==
  /\ HasMetrics =>
       /\ IsTopList(metrics.degree_metrics.top_fan_out, EdgeFanOut)
       /\ IsTopList(metrics.degree_metrics.top_fan_in, EdgeFanIn)
  /\ \A i, j \in 1..Len(emitted) :
       /\ emitted[i].metrics.degree_metrics.top_fan_out
            = emitted[j].metrics.degree_metrics.top_fan_out
       /\ emitted[i].metrics.degree_metrics.top_fan_in
            = emitted[j].metrics.degree_metrics.top_fan_in

\* more internal modules than the lists hold: full lists with ties inside, and a
\* module left out that ties with the last one listed
C18_Witness ==
  /\ HasMetrics
  /\ Cardinality(InternalIds) > TopK
  /\ LET top == metrics.degree_metrics.top_fan_in
         listed == { top[k].module : k \in 1..Len(top) }
     IN /\ Len(top) = TopK
        /\ top[1].value = top[2].value
        /\ top[2].value > top[3].value
        /\ \E m \in InternalIds \ listed :
             metrics.degree_metrics.fan_in[m] = top[TopK].value

\* the current run has written all three artifacts / none of them
WroteAll == \A a \in Artifacts : disk[a].written_by = run

WroteNone == \A a \in Artifacts : disk[a].written_by # run

(***************************************************************************)
(* C19: the CLI returns 0 whenever source files were discovered and the    *)
(* artifacts were written, whatever the number of issues or cycles (even   *)
(* when every file failed to parse), and ends with a non-zero exit code,   *)
(* having written no artifact, when discovery yields no source file.       *)
(***************************************************************************)
C19_ExitCode ==
  (pc = "done" /\ run >= 1) =>
    /\ (Len(files) > 0 /\ WroteAll) => rc = 0
    /\ Len(files) = 0 => (rc # 0 /\ rc # -1 /\ WroteNone)

\* a finished run in which every discovered file failed to parse: exit code 0,
\* all artifacts written
C19_Witness ==
  /\ pc = "done"
  /\ Len(files) >= 2
  /\ IssueCount(graph, "parse_error") = Len(files)
  /\ WroteAll
  /\ rc = 0

\* the directory of a relative path ("" for the project root)
DirOf(rel) ==
  LET comps == Split(rel, "/")
  IN Join(SubSeq(comps, 1, Len(comps) - 1), "/")

(***************************************************************************)
(* C20: discover_python_files returns the candidate files in lexicographic *)
(* order, whatever the order in which the filesystem enumerates the        *)
(* entries of a directory: of two discovered files of one directory, the   *)
(* one with the smaller path comes first.                                  *)
(***************************************************************************)
C20_DiscoveryIsLexicographic ==
  IndexBuilt =>
    \A i, j \in 1..Len(files) :
      (i < j /\ DirOf(files[i]) = DirOf(files[j])) => StrLess(files[i], files[j])

\* an absolute import node adds no issue, and each of its candidates that no
\* internal module matches gets an edge to the external node of that name
C21_AbsoluteImportStep ==
  (AtNode /\ CurSrc.stmts[si].level = 0) =>
    /\ graph'.issues = graph.issues
    /\ \A k \in 1..Len(AddedEdges) :
         LET e == AddedEdges[k]
         IN DottedPrefixes(e.raw) \cap DiscoveredModules = {} =>
              /\ e.kind = "imports"
              /\ e.target = "external:" \o e.raw
              /\ e.target \in DOMAIN graph'.nodes
              /\ graph'.nodes[e.target].kind = "external_package"
              /\ graph'.nodes[e.target].label = e.raw

\* the external_package nodes labelled `label`
ExternalNodesLabelled(label) == { nid \in ExternalIds : graph.nodes[nid].label = label }

\* one external node per imported external name, however often it is imported
C21_OneNodePerExternalName ==
  \A e \in Range(graph.edges) :
    (e.kind = "imports" /\ e.target \in ExternalIds) =>
      Cardinality(ExternalNodesLabelled(graph.nodes[e.target].label)) = 1

(***************************************************************************)
(* C21: an absolute import (level 0) that matches no internal module       *)
(* produces an external_package node and an imports edge to it and records *)
(* no issue; `import os` in any number of files and statements yields      *)
(* exactly one external_package node labelled os.                          *)
(***************************************************************************)
C21_ExternalImportNodeNoIssue ==
  [][C21_AbsoluteImportStep]_vars /\ []C21_OneNodePerExternalName

\* `import os` in two files: two edges, one node labelled os, no issue
C21_Witness ==
  /\ BuildEnded
  /\ \E e1, e2 \in Range(graph.edges) :
       /\ e1.source # e2.source
       /\ e1.raw = "os" /\ e2.raw = "os"
       /\ e1.target = "external:os" /\ e2.target = "external:os"
  /\ ExternalNodesLabelled("os") = {"external:os"}
  /\ graph.issues = << >>

\* relative paths module_name_from_path is evaluated on, besides the discovered files
PathSamples ==
  { "__init__.py", "a.py", "my__init__.py", "pkg/__init__.py", "pkg/mod.py",
    "pkg/sub/__init__.py", "pkg/sub/mod.py", "pkg/my__init__.py", "a_b/c_d.py" }

\* the identifier and package flag the claim gives for a relative path
ExpectedModuleName(rel) ==
  LET comps == Split(rel, "/")
      dirs  == SubSeq(comps, 1, Len(comps) - 1)
      name  == comps[Len(comps)]
      stem  == SubSeq(name, 1, Len(name) - 3)
  IN IF name = "__init__.py"
     THEN (IF Len(dirs) = 0 THEN << "__init__", TRUE >> ELSE << Join(dirs, "."), TRUE >>)
     ELSE << Join(Append(dirs, stem), "."), FALSE >>

(***************************************************************************)
(* C22: module_name_from_path maps a package-initializer file to the       *)
(* dotted identifier of its containing directory with is_package = true,   *)
(* every other file to its dotted relative path without extension with     *)
(* is_package = false, and the initializer at the project root to the      *)
(* non-empty sentinel `__init__` with is_package = true.                   *)
(***************************************************************************)
C22_ModuleNameFromPath ==
  IndexBuilt =>
    /\ \A rel \in PathSamples \cup Range(files) :
         module_name_from_path(rel) = ExpectedModuleName(rel)
    /\ module_name_from_path("__init__.py")[1] # ""
    /\ \A rel \in Range(files) : index.file_to_module[rel] = ExpectedModuleName(rel)[1]

\* an index over the root initializer, a package initializer and an ordinary module
C22_Witness ==
  /\ IndexBuilt
  /\ {"__init__.py", "pkg/sub/__init__.py", "pkg/x.py"} \subseteq Range(files)
  /\ index.file_to_module["__init__.py"] = "__init__"
  /\ index.file_to_module["pkg/sub/__init__.py"] = "pkg.sub"
  /\ index.file_to_module["pkg/x.py"] = "pkg.x"
  /\ index.module_is_package["__init__"]
  /\ index.module_is_package["pkg.sub"]
  /\ ~index.module_is_package["pkg.x"]

\* resolving a result again gives the result, and within one build every
\* occurrence of a candidate was resolved to the same target
C23_PickIsStable ==
  IndexBuilt =>
    /\ \A c \in PickCandidates :
         LET r == pick_internal_module(c, index.module_to_file)
         IN ~r.isNone =>
              (r.val # "" /\ pick_internal_module(r.val, index.module_to_file) = r)
    /\ \A e1, e2 \in Range(graph.edges) :
         (e1.kind = "imports" /\ e2.kind = "imports" /\ e1.raw = e2.raw)
           => e1.target = e2.target

\* no step of the build changes the module index
C23_IndexUntouched == pc = "build" => index' = index

(***************************************************************************)
(* C23: target resolution is idempotent and free of hidden state: calling  *)
(* pick_internal_module twice with the same candidate and an unchanged     *)
(* index returns the same result, leaves the index unchanged, and applying *)
(* it to its own non-empty result returns that result again.               *)
(***************************************************************************)
C23_ResolutionIsIdempotent == []C23_PickIsStable /\ [][C23_IndexUntouched]_vars

\* one candidate resolved by two statements of a build, to one internal module,
\* which is a proper prefix of the candidate and resolves to itself
C23_Witness ==
  /\ pc = "build"
  /\ \E k, l \in 1..Len(graph.edges) :
       /\ k < l
       /\ graph.edges[k].raw = graph.edges[l].raw
       /\ graph.edges[k].lineno # graph.edges[l].lineno
       /\ graph.edges[k].target = graph.edges[l].target
       /\ graph.edges[k].target = "module:pkg.sub"
       /\ graph.edges[k].raw = "pkg.sub.a"
  /\ pick_internal_module("pkg.sub", index.module_to_file) = Some("pkg.sub")

\* the internal modules with an edge to themselves
SelfImporters == { m \in InternalIds : m \in InternalSucc(m) }

\* the size of the largest set of S, 0 when S is empty
LargestSize(S) ==
  IF S = {} THEN 0
  ELSE Cardinality(CHOOSE c \in S : \A d \in S : Cardinality(d) <= Cardinality(c))

(***************************************************************************)
(* C24: the cycles block is consistent for every graph: cycles.sccs is the *)
(* list of all multi-node components followed by all self-cycle            *)
(* singletons, its length is scc_count + self_cycle_count, and             *)
(* largest_scc_size is the size of the largest multi-node component, 0     *)
(* exactly when scc_count is 0 (also when self-cycles exist).              *)
(***************************************************************************)
C24_CyclesBlockConsistent ==
  HasMetrics =>
    LET c == metrics.cycles
    IN /\ Len(c.sccs) = c.scc_count + c.self_cycle_count
       /\ c.scc_count = Cardinality(ExpectedCycles)
       /\ { Range(c.sccs[k]) : k \in 1..c.scc_count } = ExpectedCycles
       /\ \A k \in 1..c.scc_count : Len(c.sccs[k]) >= 2
       /\ c.self_cycle_count = Cardinality(SelfImporters)
       /\ { c.sccs[k] : k \in (c.scc_count + 1)..Len(c.sccs) }
            = { << m >> : m \in SelfImporters }
       /\ c.largest_scc_size = LargestSize(ExpectedCycles)
       /\ c.largest_scc_size = 0 <=> c.scc_count = 0

\* self-cycles without any multi-module component: largest_scc_size stays 0
C24_Witness ==
  /\ HasMetrics
  /\ metrics.cycles.scc_count = 0
  /\ metrics.cycles.self_cycle_count >= 2
  /\ metrics.cycles.largest_scc_size = 0
  /\ Len(metrics.cycles.sccs) = metrics.cycles.self_cycle_count

\* what holds of the variables of compute_scc_tarjan at one point of its history
TarjanPointOK(t) ==
  /\ t.on_stack = Range(t.stack)
  /\ Cardinality(t.on_stack) = Len(t.stack)
  /\ DOMAIN t.lowlink = DOMAIN t.indices
  /\ \A v \in DOMAIN t.indices : t.lowlink[v] <= t.indices[v]

\* components are emitted exactly by the modules that finish with lowlink = index
TarjanEmitsOK(tr) ==
  \A k \in 1..Len(tr) :
    /\ tr[k].ev = "finish" =>
         (tr[k].lowlink[tr[k].v] = tr[k].indices[tr[k].v]
            <=> (k < Len(tr) /\ tr[k + 1].ev = "pop" /\ tr[k + 1].v = tr[k].v))
    /\ tr[k].ev = "pop" =>
         /\ k > 1 /\ k < Len(tr)
         /\ tr[k - 1].v = tr[k].v /\ tr[k - 1].ev \in {"finish", "pop"}
         /\ tr[k + 1].v = tr[k].v /\ tr[k + 1].ev \in {"pop", "emit"}
    /\ tr[k].ev = "emit" =>
         /\ k > 1 /\ tr[k - 1].ev = "pop" /\ tr[k - 1].v = tr[k].v
         /\ Len(tr[k].sccs) = Len(tr[k - 1].sccs) + 1
         /\ tr[k].v \in Range(tr[k].sccs[Len(tr[k].sccs)])
    /\ (k > 1 /\ tr[k].ev # "emit") => tr[k].sccs = tr[k - 1].sccs
    /\ (k = 1 /\ tr[k].ev # "emit") => tr[k].sccs = << >>

\* the end of compute_scc_tarjan: empty stack, all indexed, a partition emitted
TarjanEndOK(st, module_ids) ==
  /\ st.stack = << >>
  /\ st.on_stack = {}
  /\ DOMAIN st.indices = Range(module_ids)
  /\ UNION { Range(st.sccs[k]) : k \in 1..Len(st.sccs) } = Range(module_ids)
  /\ \A k, l \in 1..Len(st.sccs) :
       k # l => Range(st.sccs[k]) \cap Range(st.sccs[l]) = {}
  /\ \A k \in 1..Len(st.sccs) : Cardinality(Range(st.sccs[k])) = Len(st.sccs[k])

(***************************************************************************)
(* C25: during compute_scc_tarjan, on_stack is the set of elements of      *)
(* stack and lowlink[v] <= indices[v] for every indexed module v; a        *)
(* component is emitted exactly when the module finishing its traversal    *)
(* has lowlink equal to its index; at termination the stack is empty,      *)
(* every module has an index, and the emitted components partition         *)
(* module_ids.  Checked for every iteration order of the forward sets, at  *)
(* every point of the history of the run on the built graph.               *)
(***************************************************************************)
C25_TarjanInvariants ==
  HasMetrics =>
    LET modules == internal_module_ids(graph)
    IN \A adj \in adj_orders(graph, modules) :
         LET st == tarjan_run(modules, adj)
         IN /\ \A k \in 1..Len(st.trace) : TarjanPointOK(st.trace[k])
            /\ TarjanEmitsOK(st.trace)
            /\ TarjanEndOK(st, modules)

\* a run in which a module finished with lowlink below its index (no component
\* emitted then) and a later module emitted a component of several modules
C25_Witness ==
  /\ HasMetrics
  /\ LET modules == internal_module_ids(graph)
     IN \E adj \in adj_orders(graph, modules) :
          LET tr == tarjan_run(modules, adj).trace
          IN /\ \E k \in 1..Len(tr) :
                  tr[k].ev = "finish" /\ tr[k].lowlink[tr[k].v] < tr[k].indices[tr[k].v]
             /\ \E k \in 1..Len(tr) :
                  tr[k].ev = "emit" /\ Len(tr[k].sccs[Len(tr[k].sccs)]) >= 2
             /\ \E k \in 1..Len(tr) : Len(tr[k].stack) >= 3

(***************************************************************************)
(* C26: the content and the order of metrics.cycles.sccs depend only on    *)
(* the node set and the edge set of the graph: whatever the iteration      *)
(* order of the forward-adjacency sets, compute_metrics reports the same   *)
(* components in the same order as the run did.                            *)
(***************************************************************************)
C26_SccsIndependentOfSetOrder ==
  HasMetrics =>
    LET modules == internal_module_ids(graph)
    IN \A adj \in adj_orders(graph, modules) :
         compute_metrics(graph, compute_scc_tarjan(modules, adj)).cycles.sccs
           = metrics.cycles.sccs

(***************************************************************************)
(* C27: whatever nodes and edges build_dependency_graph has inserted so    *)
(* far, the graph is closed and its projections agree with its edges: the  *)
(* source and the target of every edge are ids of graph.nodes, and t is in *)
(* forward[s] iff s is in reverse[t] iff some edge goes from s to t.       *)
(***************************************************************************)
EdgePairs == { << e.source, e.target >> : e \in Range(graph.edges) }

ForwardPairs == { p \in (DOMAIN graph.forward) \X (UNION Range(graph.forward)) :
                    p[2] \in graph.forward[p[1]] }

ReversePairs == { p \in (UNION Range(graph.reverse)) \X (DOMAIN graph.reverse) :
                    p[1] \in graph.reverse[p[2]] }

C27_GraphClosedAndProjectionsAgree ==
  /\ \A e \in Range(graph.edges) :
       e.source \in DOMAIN graph.nodes /\ e.target \in DOMAIN graph.nodes
  /\ ForwardPairs = EdgePairs
  /\ ReversePairs = EdgePairs

\* a finished build with imports between internal modules, an import of an
\* external package and a config access
C27_Witness ==
  /\ BuildEnded
  /\ \E e1, e2, e3 \in Range(graph.edges) :
       /\ e1.target \in InternalIds /\ e1.source # e1.target
       /\ e2.target \in ExternalIds
       /\ graph.nodes[e3.target].kind = "config_file"
  /\ Cardinality(EdgePairs) >= 4
  /\ ForwardPairs = EdgePairs
  /\ ReversePairs = EdgePairs

(***************************************************************************)
(* C28: in every graph the source of every edge is an internal module      *)
(* node; external_package and config_file nodes have no outgoing edge and  *)
(* lie on no cycle, and the cycles of the full graph (all nodes, all       *)
(* edges) are exactly the cycles of the internal subgraph, which are the   *)
(* ones reported.                                                          *)
(***************************************************************************)
\* the nodes n has an edge to, of any kind
FullSucc(n) == { e.target : e \in { x \in Range(graph.edges) : x.source = n } }

RECURSIVE FullClosure(_)
FullClosure(S) ==
  LET T == S \cup UNION { FullSucc(n) : n \in S }
  IN IF T = S THEN S ELSE FullClosure(T)

\* n lies on a cycle of the full graph
OnFullCycle(n) == n \in FullClosure(FullSucc(n))

\* the strongly connected components of the full graph
FullComponent(a) ==
  { b \in DOMAIN graph.nodes :
      b = a \/ (b \in FullClosure(FullSucc(a)) /\ a \in FullClosure(FullSucc(b))) }

FullCycles == { c \in { FullComponent(a) : a \in DOMAIN graph.nodes } : Cardinality(c) >= 2 }

C28_OnlyInternalModulesHaveOutgoingEdges ==
  /\ \A e \in Range(graph.edges) : e.source \in InternalIds
  /\ \A n \in DOMAIN graph.nodes \ InternalIds : FullSucc(n) = {} /\ ~OnFullCycle(n)
  /\ FullCycles = ExpectedCycles
  /\ { n \in DOMAIN graph.nodes : n \in FullSucc(n) } = { n \in InternalIds : n \in InternalSucc(n) }
  /\ HasMetrics =>
       /\ { Range(c) : c \in Range(ReportedCycles) } = FullCycles
       /\ { c[1] : c \in Range(ReportedSelfCycles) } = { n \in DOMAIN graph.nodes : n \in FullSucc(n) }

\* a graph with a cycle between internal modules whose members also import an
\* external package and read a config file, after cycle detection
C28_Witness ==
  /\ HasMetrics
  /\ \E c \in FullCycles :
       /\ \E m \in c : FullSucc(m) \cap ExternalIds # {}
       /\ \E m \in c : \E t \in FullSucc(m) : graph.nodes[t].kind = "config_file"
  /\ \E n \in InternalIds : n \in FullSucc(n)
  /\ metrics.cycles.scc_count = 1 /\ metrics.cycles.self_cycle_count >= 1

(***************************************************************************)
(* C29: a file that fails to parse still contributes its internal module   *)
(* node: every import naming that module resolves to this node (no         *)
(* external node carries its name), the module has fan-out 0 (no edge to   *)
(* an internal module), and it is listed among the sinks.                  *)
(***************************************************************************)
\* the discovered files read_text or ast.parse raises on
UnparseableFiles == { f \in Range(files) : ~fs[SourceOf(f)].src.ok }

C29_UnparseableFileIsSink ==
  BuildEnded =>
    \A f \in UnparseableFiles :
      LET name == module_name_from_path(f)[1]
          m    == "module:" \o name
      IN /\ m \in InternalIds
         /\ ("external:" \o name) \notin DOMAIN graph.nodes
         /\ \A e \in Range(graph.edges) :
              (e.kind = "imports" /\ e.raw = name) => e.target = m
         /\ InternalSucc(m) = {}
         /\ HasMetrics => m \in Range(metrics.entrypoints.sinks)

\* the current node is `from . import <names>` in a file of the project root
AtRootFromDotImport ==
  /\ AtNode
  /\ DirOf(CurRel) = ""
  /\ CurSrc.stmts[si].type = "ImportFrom"
  /\ CurSrc.stmts[si].level = 1
  /\ CurSrc.stmts[si].module.isNone

C30_RootRelativeStep ==
  AtRootFromDotImport =>
    \A k \in 1..Len(CurSrc.stmts[si].names) :
      LET x == CurSrc.stmts[si].names[k]
      IN (x # "*" /\ (x \o ".py") \in Range(files)) =>
           /\ Len(AddedEdges) = Len(CurSrc.stmts[si].names)
           /\ AddedEdges[k].target = "module:" \o x
           /\ AddedEdges[k].target # CurSourceId

(***************************************************************************)
(* C30: `from . import x` in a file directly in the project root resolves  *)
(* to the top-level internal module x whenever x.py is a discovered file,  *)
(* for an ordinary root-level module and for the root `__init__.py` alike, *)
(* and never to the importing module itself.                               *)
(***************************************************************************)
C30_RootRelativeImportResolvesToTopLevel == [][C30_RootRelativeStep]_vars

====
